---- MODULE Spec2Model ----
(***************************************************************************)
(* merchant-hub: poll coordination (lease, heartbeat, mode), the transfer  *)
(* detector with its per-(account, currency) cursors, and the per-         *)
(* restaurant transfer streams with their consumer groups.                 *)
(*                                                                         *)
(* The store is Upstash Redis: every command is atomic, a route handler is *)
(* a sequence of commands, and handlers of different requests interleave   *)
(* between commands.                                                       *)
(*                                                                         *)
(* Routes as they are in the repository: wake-up works on the keys         *)
(* polling:heartbeat, polling:poller and polling:mode; poll and cron-poll  *)
(* work on the hash polling:state and on the key polling:poller; consume   *)
(* is the revision with env and XAUTOCLAIM, ack the revision with env.     *)
(* The XLEN and XRANGE commands of consume only feed the log and are left  *)
(* out.                                                                    *)
(***************************************************************************)
EXTENDS Integers, Sequences, FiniteSets, TLC

None == "none"

(***************************************************************************)
(* Bounds of the model.                                                    *)
(***************************************************************************)
\* The clock counts seconds and advances in steps of TickSeconds.
TickSeconds == 5
\* The clock stops at MaxTime.
MaxTime == 40

(***************************************************************************)
(* Program constants.                                                      *)
(***************************************************************************)
\* POLLING_CONFIG.HEARTBEAT_TIMEOUT, in milliseconds
HEARTBEAT_TIMEOUT == 15000
\* the `ex: 30` of the SET NX and the EXPIRE of polling:poller, in seconds
POLLER_LOCK_TTL == 30
\* Date.now() is in milliseconds; the model clock is in seconds
MS_PER_SECOND == 1000

\* shop ids sent to /api/wake-up (README: 'indies', ...)
Shops == {"indies", "croque-bedaine"}

VARIABLES
    now,        \* wall clock, seconds
    lock,       \* key polling:poller: [holder, expiry]
    hbKey,      \* key polling:heartbeat
    modeKey,    \* key polling:mode
    state,      \* hash polling:state: [heartbeat, poller, mode]
    broadcasts, \* stream system:broadcasts: the types of the entries it holds
    wk,         \* wake-up invocation of each shop, and its last response
    polling,    \* co page of each shop: is its 6-second poll loop running
    rt,         \* poll / cron-poll invocation of each caller
    cursor,     \* keys lastId:{account}:{currency}
    streams,    \* streams transfers:{restaurantId}
    ledger,     \* the HAF database: operation id -> row
    cyc,        \* pollAllTransfers() invocations, command by command
    run,        \* the last detector run: what it read and what it returned
    failures,   \* store and database commands that have failed so far
    groups,     \* consumer groups of the stream transfers:indies, per env
    cons,       \* consume / ack invocation of each consumer, and its response
    seen,       \* the values the lastId keys have held together, where they
                \* are recorded (empty where they are not)
    workingStrategyIndex, \* reporting route: the cached join strategy
    reporting   \* reporting invocation of each request, and its response

vars == <<now, lock, hbKey, modeKey, state, broadcasts, wk, polling, rt,
          cursor, streams, ledger, cyc, run, failures, groups, cons, seen,
          workingStrategyIndex, reporting>>

\* the detector's part of the state
detVars == <<cursor, streams, ledger, cyc, run, failures, groups, cons, seen>>

\* the reporting route's part of the state
repVars == <<workingStrategyIndex, reporting>>

(***************************************************************************)
(* lib/redis.ts: the lease, key polling:poller with a TTL.                 *)
(***************************************************************************)
NoLock == [holder |-> None, expiry |-> 0]

\* A lease that never expires.
LockExistsWithoutExpiry == lock.holder # None

\* Redis: a key with a TTL exists until its expiry time is reached.
LockExists == lock.holder # None /\ now < lock.expiry

\* getPoller(): GET polling:poller
getPoller == IF LockExists THEN lock.holder ELSE None

\* The SET without its NX option.
attemptTakeoverWithoutNX(shopId) ==
    [ok |-> TRUE,
     lock |-> [holder |-> shopId, expiry |-> now + POLLER_LOCK_TTL]]

\* attemptTakeoverAsPoller(shopId): SET polling:poller shopId NX EX 30.
\* ok: the command answered 'OK' (the function returns true); lock: the key
\* after the command.
attemptTakeoverAsPoller(shopId) ==
    IF LockExists
    THEN [ok |-> FALSE, lock |-> lock]
    ELSE [ok |-> TRUE,
          lock |-> [holder |-> shopId, expiry |-> now + POLLER_LOCK_TTL]]

\* refreshPollerLockV2(shopId): EXPIRE polling:poller 30 (shopId is unused).
\* EXPIRE on a key that does not exist does nothing.
refreshPollerLockV2(shopId) ==
    IF LockExists
    THEN [lock EXCEPT !.expiry = now + POLLER_LOCK_TTL]
    ELSE lock

(***************************************************************************)
(* lib/redis.ts: hash polling:state.                                       *)
(***************************************************************************)
\* A missing heartbeat is 0: the code tests it by truthiness, and no clock
\* value is 0.
EmptyState == [heartbeat |-> 0, poller |-> None, mode |-> None]

getHeartbeatFromState(st) == st.heartbeat
getPollerFromState(st) == st.poller
getModeFromState(st) == st.mode

\* heartbeat && (now - heartbeat < HEARTBEAT_TIMEOUT), with Date.now() in ms
IsFresh(heartbeat, at) ==
    /\ heartbeat # 0
    /\ (at - heartbeat) * MS_PER_SECOND < HEARTBEAT_TIMEOUT

(***************************************************************************)
(* lib/config.ts: the configured accounts.  The model keeps the prod       *)
(* accounts of the two restaurants.                                        *)
(***************************************************************************)
AccountList == <<"indies.cafe", "croque.bedaine">>
Accounts == {AccountList[i] : i \in DOMAIN AccountList}

\* accountToContext.get(account).restaurant.id
RestaurantOf(account) ==
    IF account = "indies.cafe" THEN "indies" ELSE "croque-bedaine"
Restaurants == {RestaurantOf(a) : a \in Accounts}

\* the three polls of pollAllTransfers, in their order
CurrencyList == <<"HBD", "EURO", "OCLT">>
Currencies == {CurrencyList[i] : i \in DOMAIN CurrencyList}

\* restaurant.memoFilters[symbol]: '%TABLE %' for every restaurant and symbol.
\* A string is modelled as the sequence of its pieces.
MemoFilter == <<"%", "TABLE ", "%">>

\* memoFilter.replace(/%/g, '')
MemoPattern == SelectSeq(MemoFilter, LAMBDA piece : piece # "%")

\* memo.includes(pattern)
Includes(memo, pattern) ==
    \E i \in 1..(Len(memo) + 1) :
        /\ i + Len(pattern) - 1 <= Len(memo)
        /\ SubSeq(memo, i, i + Len(pattern) - 1) = pattern

(***************************************************************************)
(* The HAF database.  ledger[id] is the operation with that id; operation  *)
(* ids grow with the chain, and the model puts one operation in each       *)
(* block, so that block_num = id and the head block is Len(ledger).        *)
(*   sym = "HBD": a row of operation_transfer_table with symbol HBD;       *)
(*   otherwise a custom_json 'ssc-mainnet-hive' whose payload is a tokens  *)
(*   transfer of that symbol.                                              *)
(***************************************************************************)
\* LIMIT of the HBD query (100 in the source), scaled to the model
HBD_LIMIT == 2
\* LIMIT of the custom_json query (1000 in the source), scaled to the model
TOKEN_LIMIT == 2
\* currentBlock - 10000 in the source, scaled to the model
BLOCK_WINDOW == 2
\* BigInt(Number.MAX_SAFE_INTEGER), the first value of the running minimum;
\* 2^53 - 1 in the source, scaled to 2^30 - 1 so that the integers of the
\* model checker reach beyond it, as the BigInt ids of the source do
MAX_SAFE_INTEGER == 1073741823

SetMax(S) == CHOOSE m \in S : \A x \in S : x <= m

\* ORDER BY ... DESC LIMIT n over a set of ids
RECURSIVE DescLimit(_, _)
DescLimit(ids, n) ==
    IF ids = {} \/ n = 0
    THEN <<>>
    ELSE LET m == SetMax(ids) IN <<m>> \o DescLimit(ids \ {m}, n - 1)

\* SELECT ... FROM operation_transfer_table WHERE to_account = ANY($1)
\*   AND symbol = 'HBD' AND id > $2 ORDER BY id DESC LIMIT 100
HBDQuery(led, allAccounts, minLastId) ==
    DescLimit({id \in DOMAIN led :
                  /\ led[id].sym = "HBD"
                  /\ led[id].to \in allAccounts
                  /\ id > minLastId},
              HBD_LIMIT)

\* SELECT block_num FROM haf_blocks ORDER BY block_num DESC LIMIT 1, then
\* SELECT ... FROM operation_custom_json_view WHERE block_num BETWEEN $1 AND $2
\*   AND custom_id = 'ssc-mainnet-hive' AND id > $3
\*   ORDER BY block_num DESC LIMIT 1000
TokenQuery(led, minLastId) ==
    LET currentBlock == Len(led)
        startBlock == currentBlock - BLOCK_WINDOW
    IN  DescLimit({id \in DOMAIN led :
                      /\ led[id].sym # "HBD"
                      /\ startBlock <= id /\ id <= currentBlock
                      /\ id > minLastId},
                  TOKEN_LIMIT)

QueryRows(symbol, led, minLastId) ==
    IF symbol = "HBD"
    THEN HBDQuery(led, Accounts, minLastId)
    ELSE TokenQuery(led, minLastId)

(***************************************************************************)
(* lib/haf-polling.ts: the scan of the returned rows.                      *)
(***************************************************************************)
NoMaxIds == [a \in Accounts |-> 0]
EmptyScan == [transfers |-> <<>>, maxIds |-> NoMaxIds, order |-> <<>>]

MakeTransfer(id, account, symbol) ==
    [id |-> id, restaurant_id |-> RestaurantOf(account),
     account |-> account, symbol |-> symbol]

\* The row loop without its memo test.
RowAcceptedAnyMemo(symbol, row, id, accountLastIds) ==
    /\ row.sym = symbol
    /\ row.to \in Accounts
    /\ ~(id <= accountLastIds[row.to])

\* The `continue` tests of the row loop, in their order.  For HBD the symbol
\* test is the query's.
RowAccepted(symbol, row, id, accountLastIds) ==
    /\ row.sym = symbol
    /\ row.to \in Accounts
    /\ ~(id <= accountLastIds[row.to])
    /\ Includes(row.memo, MemoPattern)

\* accountMaxIds.set(account, rowId) whatever the id stored before.
TrackLast(maxIds, account, rowId) ==
    [maxIds EXCEPT ![account] = rowId]

\* const currentMax = accountMaxIds.get(account) || BigInt(0);
\* if (rowId > currentMax) accountMaxIds.set(account, rowId);
TrackMax(maxIds, account, rowId) ==
    IF rowId > maxIds[account]
    THEN [maxIds EXCEPT ![account] = rowId]
    ELSE maxIds

\* for (const row of result.rows) { ... }: the accepted transfers in row
\* order, accountMaxIds, and the accounts in the order accountMaxIds got them.
RECURSIVE ScanRows(_, _, _, _, _)
ScanRows(symbol, led, rows, accountLastIds, acc) ==
    IF rows = <<>>
    THEN acc
    ELSE LET rowId == Head(rows)
             row == led[rowId]
         IN  IF ~RowAccepted(symbol, row, rowId, accountLastIds)
             THEN ScanRows(symbol, led, Tail(rows), accountLastIds, acc)
             ELSE LET currentMax == acc.maxIds[row.to]
                      next ==
                          [transfers |->
                               Append(acc.transfers, MakeTransfer(rowId, row.to, symbol)),
                           maxIds |-> TrackMax(acc.maxIds, row.to, rowId),
                           order |->
                               IF currentMax = 0
                               THEN Append(acc.order, row.to)
                               ELSE acc.order]
                  IN  ScanRows(symbol, led, Tail(rows), accountLastIds, next)

\* A lower bound that is the cursor of the last account.
MinLastIdOfLast(k, accountLastIds, minLastId) ==
    accountLastIds[AccountList[Len(AccountList)]]

\* for (const account of allAccounts) { ... if (lastIdBigInt < minLastId) ... }
RECURSIVE MinLastId(_, _, _)
MinLastId(k, accountLastIds, minLastId) ==
    IF k > Len(AccountList)
    THEN minLastId
    ELSE LET lastId == accountLastIds[AccountList[k]]
         IN  MinLastId(k + 1, accountLastIds,
                       IF lastId < minLastId THEN lastId ELSE minLastId)

\* A cursor write that is lost.
setLastIdDropped(cur, account, symbol, id) == cur

\* setLastId(account, symbol, id): SET lastId:{account}:{symbol} id
setLastId(cur, account, symbol, id) ==
    [cur EXCEPT ![account][symbol] = id]

\* for (const [account, maxId] of accountMaxIds) await setLastId(...)
RECURSIVE WriteMaxIds(_, _, _, _)
WriteMaxIds(cur, symbol, order, maxIds) ==
    IF order = <<>>
    THEN cur
    ELSE WriteMaxIds(setLastId(cur, Head(order), symbol, maxIds[Head(order)]),
                     symbol, Tail(order), maxIds)

\* accountLastIds after the getLastId loop
ReadLastIds(symbol, cur) == [a \in Accounts |-> cur[a][symbol]]

\* The part of a detector run after its query: the row loop over the rows the
\* ledger returned, then the setLastId loop.
ProcessRows(symbol, cur, led, rows, accountLastIds) ==
    LET scan == ScanRows(symbol, led, rows, accountLastIds, EmptyScan)
    IN  [transfers |-> scan.transfers,
         cursor |-> WriteMaxIds(cur, symbol, scan.order, scan.maxIds)]

\* pollHBDBatched / pollHiveEngineTokenBatched run with no other command in
\* between: the transfers returned and the cursors afterwards.
PollBatched(symbol, cur, led) ==
    LET accountLastIds == ReadLastIds(symbol, cur)
        minLastId == MinLastId(1, accountLastIds, MAX_SAFE_INTEGER)
        rows == QueryRows(symbol, led, minLastId)
    IN  ProcessRows(symbol, cur, led, rows, accountLastIds)

pollHBDBatched(cur, led) == PollBatched("HBD", cur, led)
pollHiveEngineTokenBatched(symbol, cur, led) == PollBatched(symbol, cur, led)

\* publishTransfer(restaurantId, transfer): XADD transfers:{restaurantId} *
publishTransfer(strs, transfer) ==
    [strs EXCEPT ![transfer.restaurant_id] = Append(@, transfer)]

\* for (const transfer of allTransfers) await publishTransfer(...)
RECURSIVE PublishAll(_, _)
PublishAll(strs, transfers) ==
    IF transfers = <<>>
    THEN strs
    ELSE PublishAll(publishTransfer(strs, Head(transfers)), Tail(transfers))

\* pollAllTransfers() run with no other command in between and no failure.
pollAllTransfers(cur, led, strs) ==
    LET hbd == pollHBDBatched(cur, led)
        euro == pollHiveEngineTokenBatched("EURO", hbd.cursor, led)
        oclt == pollHiveEngineTokenBatched("OCLT", euro.cursor, led)
        allTransfers == hbd.transfers \o euro.transfers \o oclt.transfers
    IN  [transfers |-> allTransfers,
         cursor |-> oclt.cursor,
         streams |-> PublishAll(strs, allTransfers)]

(***************************************************************************)
(* The clock.                                                              *)
(***************************************************************************)
Tick ==
    /\ now + TickSeconds <= MaxTime
    /\ now' = now + TickSeconds
    /\ UNCHANGED <<lock, hbKey, modeKey, state, broadcasts, wk, polling, rt, detVars, repVars>>

(***************************************************************************)
(* app/api/wake-up/route.ts POST, one action per store command.            *)
(*   wk[s].pc: idle -> getPoller -> attempt -> setMode -> broadcast -> idle*)
(*                                          \-> lostRace -> idle           *)
(***************************************************************************)
WkIdle == [pc |-> "idle", heartbeat |-> 0, status |-> None, poller |-> None]

Respond(s, status, poller) ==
    wk' = [wk EXCEPT ![s] = [WkIdle EXCEPT !.status = status, !.poller = poller]]

\* The co page loads and posts {shopId}; the handler reads the heartbeat key.
WakeUpStart(s) ==
    /\ wk[s].pc = "idle"
    /\ ~polling[s]
    /\ wk' = [wk EXCEPT ![s] = [WkIdle EXCEPT !.pc = "getPoller", !.heartbeat = hbKey]]
    /\ UNCHANGED <<now, lock, hbKey, modeKey, state, broadcasts, polling, rt, detVars, repVars>>

\* getPoller(), now = Date.now(), and the already-active early return.
WakeUpGetPoller(s) ==
    /\ wk[s].pc = "getPoller"
    /\ LET currentPoller == getPoller
           isPollingActive == IsFresh(wk[s].heartbeat, now)
       IN  IF isPollingActive /\ currentPoller # None
           THEN Respond(s, "already-active", currentPoller)
           ELSE wk' = [wk EXCEPT ![s].pc = "attempt"]
    /\ UNCHANGED <<now, lock, hbKey, modeKey, state, broadcasts, polling, rt, detVars, repVars>>

\* const won = await attemptTakeoverAsPoller(shopId)
WakeUpAttempt(s) ==
    /\ wk[s].pc = "attempt"
    /\ LET res == attemptTakeoverAsPoller(s)
           won == res.ok
       IN  /\ lock' = res.lock
           /\ wk' = [wk EXCEPT ![s].pc = IF won THEN "setMode" ELSE "lostRace"]
    /\ UNCHANGED <<now, hbKey, modeKey, state, broadcasts, polling, rt, detVars, repVars>>

\* await setMode('active-6s')
WakeUpSetMode(s) ==
    /\ wk[s].pc = "setMode"
    /\ modeKey' = "active-6s"
    /\ wk' = [wk EXCEPT ![s].pc = "broadcast"]
    /\ UNCHANGED <<now, lock, hbKey, state, broadcasts, polling, rt, detVars, repVars>>

\* await publishSystemBroadcast(polling-started); the response became-poller
\* carries shouldStartPolling = true and the co page starts its poll loop
\* (README, "Wake Up on Page Load").
WakeUpBroadcast(s) ==
    /\ wk[s].pc = "broadcast"
    /\ broadcasts' = broadcasts \cup {"polling-started"}
    /\ Respond(s, "became-poller", s)
    /\ polling' = [polling EXCEPT ![s] = TRUE]
    /\ UNCHANGED <<now, lock, hbKey, modeKey, state, rt, detVars, repVars>>

\* const newPoller = await getPoller(); the response lost-race
WakeUpLostRace(s) ==
    /\ wk[s].pc = "lostRace"
    /\ Respond(s, "lost-race", getPoller)
    /\ UNCHANGED <<now, lock, hbKey, modeKey, state, broadcasts, polling, rt, detVars, repVars>>

\* The pending store command throws: the catch answers 500.
WakeUpError(s) ==
    /\ wk[s].pc # "idle"
    /\ Respond(s, "error", None)
    /\ UNCHANGED <<now, lock, hbKey, modeKey, state, broadcasts, polling, rt, detVars, repVars>>

\* The co page closes or crashes: its setInterval is gone.
ClosePage(s) ==
    /\ polling[s]
    /\ rt[s].pc = "idle"
    /\ polling' = [polling EXCEPT ![s] = FALSE]
    /\ UNCHANGED <<now, lock, hbKey, modeKey, state, broadcasts, wk, rt, detVars, repVars>>

(***************************************************************************)
(* app/api/poll/route.ts GET, called by the co page whose poll loop runs.  *)
(*   rt[s].pc: idle -> detect -> heartbeat -> refresh -> idle              *)
(***************************************************************************)
Cron == "cron"
Callers == Shops \cup {Cron}

RtIdle == [pc |-> "idle", currentPoller |-> None, at |-> 0,
           status |-> None, found |-> 0]

RtRespond(r, status, found) ==
    rt' = [rt EXCEPT ![r] = [RtIdle EXCEPT !.status = status, !.found = found]]

\* const pollingState = await getPollingState();
\* const currentPoller = getPollerFromState(pollingState);
PollStart(s) ==
    /\ polling[s]
    /\ rt[s].pc = "idle"
    /\ rt' = [rt EXCEPT ![s] = [RtIdle EXCEPT !.pc = "detect",
                                   !.currentPoller = getPollerFromState(state)]]
    /\ UNCHANGED <<now, lock, hbKey, modeKey, state, broadcasts, wk, polling, detVars, repVars>>

\* const transfers = await pollAllTransfers();
PollDetect(s) ==
    /\ rt[s].pc = "detect"
    /\ LET res == pollAllTransfers(cursor, ledger, streams)
       IN  /\ cursor' = res.cursor
           /\ streams' = res.streams
           /\ rt' = [rt EXCEPT ![s].pc = "heartbeat", ![s].found = Len(res.transfers)]
    /\ UNCHANGED <<now, lock, hbKey, modeKey, state, broadcasts, wk, polling, ledger, cyc, run, failures,
                   groups, cons, seen, repVars>>

\* const now = Date.now(); await updatePollingState({ heartbeat: now });
PollHeartbeat(s) ==
    /\ rt[s].pc = "heartbeat"
    /\ state' = [state EXCEPT !.heartbeat = now]
    /\ rt' = [rt EXCEPT ![s].pc = "refresh"]
    /\ UNCHANGED <<now, lock, hbKey, modeKey, broadcasts, wk, polling, detVars, repVars>>

\* A poll that takes the lease for its caller when it answers.
PollRefreshTakesLease(s) ==
    /\ rt[s].pc = "refresh"
    /\ lock' = [holder |-> s, expiry |-> now + POLLER_LOCK_TTL]
    /\ RtRespond(s, "ok", rt[s].found)
    /\ UNCHANGED <<now, hbKey, modeKey, state, broadcasts, wk, polling, detVars, repVars>>

\* if (currentPoller) { await refreshPollerLockV2(currentPoller); } and the
\* response { success: true, transfersFound }
PollRefresh(s) ==
    /\ rt[s].pc = "refresh"
    /\ lock' = IF rt[s].currentPoller # None
               THEN refreshPollerLockV2(rt[s].currentPoller)
               ELSE lock
    /\ RtRespond(s, "ok", rt[s].found)
    /\ UNCHANGED <<now, hbKey, modeKey, state, broadcasts, wk, polling, detVars, repVars>>

\* The pending store command throws: the catch answers 500.
PollError(s) ==
    /\ rt[s].pc \in {"heartbeat", "refresh"}
    /\ RtRespond(s, "error", 0)
    /\ UNCHANGED <<now, lock, hbKey, modeKey, state, broadcasts, wk, polling, detVars, repVars>>

(***************************************************************************)
(* app/api/cron-poll/route.ts GET, called by Vercel Cron.                  *)
(*   rt[Cron].pc: idle -> update -> broadcast -> detect -> idle            *)
(***************************************************************************)
\* A cron-poll without the early return: it polls whatever the heartbeat
CronStartAlwaysPolls ==
    /\ rt[Cron].pc = "idle"
    /\ rt' = [rt EXCEPT ![Cron] = [RtIdle EXCEPT !.pc = "update", !.at = now]]
    /\ UNCHANGED <<now, lock, hbKey, modeKey, state, broadcasts, wk, polling, detVars, repVars>>

\* getPollingState(), now = Date.now(), and the 'skipped' early return
CronStart ==
    /\ rt[Cron].pc = "idle"
    /\ LET heartbeat == getHeartbeatFromState(state)
           isActivePollerRunning == IsFresh(heartbeat, now)
       IN  IF isActivePollerRunning
           THEN RtRespond(Cron, "skipped", 0)
           ELSE rt' = [rt EXCEPT ![Cron] = [RtIdle EXCEPT !.pc = "update", !.at = now]]
    /\ UNCHANGED <<now, lock, hbKey, modeKey, state, broadcasts, wk, polling, detVars, repVars>>

\* await updatePollingState({ mode: 'sleeping-1min', heartbeat: now })
CronUpdate ==
    /\ rt[Cron].pc = "update"
    /\ state' = [state EXCEPT !.mode = "sleeping-1min", !.heartbeat = rt[Cron].at]
    /\ rt' = [rt EXCEPT ![Cron].pc = "broadcast"]
    /\ UNCHANGED <<now, lock, hbKey, modeKey, broadcasts, wk, polling, detVars, repVars>>

\* await publishSystemBroadcast({ type: 'all-sleeping', ... })
CronBroadcast ==
    /\ rt[Cron].pc = "broadcast"
    /\ broadcasts' = broadcasts \cup {"all-sleeping"}
    /\ rt' = [rt EXCEPT ![Cron].pc = "detect"]
    /\ UNCHANGED <<now, lock, hbKey, modeKey, state, wk, polling, detVars, repVars>>

\* const transfers = await pollAllTransfers(); and the response 'polled'
CronDetect ==
    /\ rt[Cron].pc = "detect"
    /\ LET res == pollAllTransfers(cursor, ledger, streams)
       IN  /\ cursor' = res.cursor
           /\ streams' = res.streams
           /\ RtRespond(Cron, "polled", Len(res.transfers))
    /\ UNCHANGED <<now, lock, hbKey, modeKey, state, broadcasts, wk, polling, ledger, cyc, run, failures,
                   groups, cons, seen, repVars>>

\* The pending store command throws: the catch answers 500.
CronError ==
    /\ rt[Cron].pc \in {"update", "broadcast"}
    /\ RtRespond(Cron, "error", 0)
    /\ UNCHANGED <<now, lock, hbKey, modeKey, state, broadcasts, wk, polling, detVars, repVars>>

(***************************************************************************)
(* The detector's state when nothing has been processed.                   *)
(***************************************************************************)
NoCursor == [a \in Accounts |-> [c \in Currencies |-> 0]]
NoStreams == [r \in Restaurants |-> <<>>]
CycleCallers == {"poll", "cron-poll"}

\* The locals of a pollAllTransfers() invocation at its first command.
CycNew ==
    [pc |-> "read",          \* the command it is about to issue
     ci |-> 1,               \* the currency being polled, in CurrencyList
     k |-> 1,                \* the account whose lastId is read next
     lastIds |-> NoMaxIds,   \* accountLastIds
     found |-> <<>>,         \* allTransfers of the currency being polled
     maxIds |-> NoMaxIds,    \* accountMaxIds
     order |-> <<>>,         \* the accounts still to be written
     all |-> <<>>,           \* allTransfers of pollAllTransfers
     pi |-> 1,               \* the transfer published next
     before |-> NoCursor,    \* the cursors when the invocation started
     status |-> None]        \* how the last invocation ended
CycIdle == [CycNew EXCEPT !.pc = "idle"]
NoRun == [kind |-> None]

\* env of /api/transfers/consume and /api/transfers/ack
Envs == {"prod", "dev"}
\* consumerId of /api/transfers/consume
Consumers == {"c1", "c2"}
\* A group that does not exist yet.  last: the group's last-delivered id;
\* pel: its pending entries, id -> [consumer, at (time of last delivery)].
NoGroup == [exists |-> FALSE, last |-> 0, pel |-> [e \in {} |-> None]]
NoGroups == [env \in Envs |-> NoGroup]
\* An invocation of a consumer, and the last response the consumer got.
ConsIdle ==
    [pc |-> "idle", env |-> None, count |-> 0,
     via |-> None,            \* the command that produced the response
     transfers |-> <<>>,      \* response: the ids of the entries delivered
     pending |-> 0,           \* response: the pending count
     acked |-> {},            \* last ack request: messageIds
     acknowledged |-> 0]      \* last ack response: acknowledged

(***************************************************************************)
(* app/api/reporting/route.ts: the join strategies and the cached index    *)
(* of the one that worked.                                                 *)
(***************************************************************************)
\* requests to GET /api/reporting that may be in progress together
MaxRequests == 2
\* const JOIN_STRATEGIES = [{name, sql}, ...]: the strategies by name
JOIN_STRATEGIES ==
    <<"hafsql.haf_operations", "hive.operations",
      "hafsql.haf_operations->haf_blocks">>
\* let workingStrategyIndex: number | null = null; array indexes count from
\* 0, and null is written -1 here
NullIndex == -1
\* Array.prototype.indexOf: the first index of x, or -1
indexOf(array, x) ==
    IF \E i \in 1..Len(array) : array[i] = x
    THEN (CHOOSE i \in 1..Len(array) :
              array[i] = x /\ \A j \in 1..(i - 1) : array[j] # x) - 1
    ELSE -1
\* A route without the cache: the strategies as they are listed.
strategiesToTryAsListed(index) ==
    JOIN_STRATEGIES
\* const strategiesToTry = workingStrategyIndex !== null
\*   ? [JOIN_STRATEGIES[index], ...JOIN_STRATEGIES.filter((_, i) => i !== index)]
\*   : JOIN_STRATEGIES
strategiesToTry(index) ==
    LET others == [j \in 1..(Len(JOIN_STRATEGIES) - 1) |->
                      JOIN_STRATEGIES[IF j <= index THEN j ELSE j + 1]]
    IN  IF index # NullIndex
        THEN <<JOIN_STRATEGIES[index + 1]>> \o others
        ELSE JOIN_STRATEGIES
\* An invocation of the route, and the last response the request got.
RepIdle ==
    [pc |-> "idle",
     strategiesToTry |-> <<>>,
     errors |-> <<>>,         \* the strategies that failed, in order
     usedStrategy |-> None,   \* response: _strategy
     status |-> 0]            \* response: HTTP status
InitReporting ==
    /\ workingStrategyIndex = NullIndex
    /\ reporting = [q \in (1..MaxRequests) |-> RepIdle]
\* The request is validated and the order of the strategies is fixed.
\* reject: the status of the early return (missing parameter 400, unknown
\* account 403, bad date format 400, a date that is no date 500), 0 for none.
ReportingStart(q, reject) ==
    /\ reporting[q].pc # "trying"
    /\ reporting' = [reporting EXCEPT ![q] =
          IF reject # 0
          THEN [RepIdle EXCEPT !.pc = "done", !.status = reject]
          ELSE [RepIdle EXCEPT !.pc = "trying",
                   !.strategiesToTry = strategiesToTry(workingStrategyIndex)]]
    /\ UNCHANGED <<now, lock, hbKey, modeKey, state, broadcasts, wk, polling, rt,
                   detVars, workingStrategyIndex>>
\* One turn of `for (const strategy of strategiesToTry)`: the query of the
\* next strategy returns rows (ok) or throws.  After the last one has thrown
\* the request is answered 500.
ReportingQuery(q, ok) ==
    /\ reporting[q].pc = "trying"
    /\ LET rec == reporting[q]
           strategy == rec.strategiesToTry[Len(rec.errors) + 1]
           errors == Append(rec.errors, strategy)
       IN  IF ok
           THEN /\ workingStrategyIndex' = indexOf(JOIN_STRATEGIES, strategy)
                /\ reporting' = [reporting EXCEPT ![q] =
                      [rec EXCEPT !.pc = "done", !.usedStrategy = strategy,
                                  !.status = 200]]
           ELSE /\ workingStrategyIndex' = workingStrategyIndex
                /\ reporting' = [reporting EXCEPT ![q] =
                      IF Len(errors) = Len(rec.strategiesToTry)
                      THEN [rec EXCEPT !.pc = "done", !.errors = errors,
                                       !.status = 500]
                      ELSE [rec EXCEPT !.errors = errors]]
    /\ UNCHANGED <<now, lock, hbKey, modeKey, state, broadcasts, wk, polling, rt,
                   detVars>>
InitLease ==
    /\ now = TickSeconds
    /\ lock = NoLock
    /\ hbKey = 0
    /\ modeKey = None
    /\ state = EmptyState
    /\ broadcasts = {}
    /\ wk = [s \in Shops |-> WkIdle]
    /\ polling = [s \in Shops |-> FALSE]
    /\ rt = [r \in Callers |-> RtIdle]
    /\ cursor = NoCursor
    /\ streams = NoStreams
    /\ ledger = <<>>
    /\ cyc = [r \in CycleCallers |-> CycIdle]
    /\ run = NoRun
    /\ failures = 0
    /\ groups = NoGroups
    /\ cons = [c \in Consumers |-> ConsIdle]
    /\ seen = {}
    /\ InitReporting

NextLease ==
    \/ Tick
    \/ \E s \in Shops : WakeUpStart(s)
    \/ \E s \in Shops : WakeUpGetPoller(s)
    \/ \E s \in Shops : WakeUpAttempt(s)
    \/ \E s \in Shops : WakeUpSetMode(s)
    \/ \E s \in Shops : WakeUpBroadcast(s)
    \/ \E s \in Shops : WakeUpLostRace(s)
    \/ \E s \in Shops : WakeUpError(s)
    \/ \E s \in Shops : ClosePage(s)
    \/ \E s \in Shops : PollStart(s)
    \/ \E s \in Shops : PollDetect(s)
    \/ \E s \in Shops : PollHeartbeat(s)
    \/ \E s \in Shops : PollRefresh(s)
    \/ \E s \in Shops : PollError(s)

SpecLease == InitLease /\ [][NextLease]_vars

(***************************************************************************)
(* Claims about the lease.                                                 *)
(***************************************************************************)
\* the attempt of shop s returns in this step
AttemptReturns(s) ==
    /\ wk[s].pc = "attempt"
    /\ wk'[s].pc \in {"setMode", "lostRace"}

\* C1: an acquisition attempt returns true exactly when no unexpired lease
\* exists; the winner then holds an unexpired lease, so that of several
\* attempts issued together exactly one wins, and a losing attempt leaves the
\* lease as it was.
C1_OneAttemptWins ==
    [][\A s \in Shops :
          AttemptReturns(s) =>
              /\ (wk'[s].pc = "setMode") <=> ~LockExists
              /\ wk'[s].pc = "setMode" => LockExists' /\ lock'.holder = s
              /\ wk'[s].pc = "lostRace" => lock' = lock]_vars

\* Two shops attempted at the same instant: one won, the other lost.
C1_Witness ==
    \E s, t \in Shops :
        /\ s # t
        /\ wk[s].pc = "setMode"
        /\ wk[t].pc = "lostRace"
        /\ lock = [holder |-> s, expiry |-> now + POLLER_LOCK_TTL]

\* C2: at most one shop was told to poll and still runs its poll loop.
C2_AtMostOnePoller ==
    Cardinality({s \in Shops : polling[s]}) <= 1

\* C10: an attempt by another shop, made when the lease has not been renewed
\* for its TTL, wins, and the holder read afterwards is that shop.
C10_ExpiredLeaseIsAcquirable ==
    [][\A s \in Shops :
          (/\ AttemptReturns(s)
           /\ lock.holder \notin {None, s}
           /\ now >= lock.expiry)
          => (wk'[s].pc = "setMode" /\ getPoller' = s)]_vars

\* Shop s has just taken over the expired lease of shop t, whose loop runs.
C10_Witness ==
    \E s, t \in Shops :
        /\ s # t
        /\ polling[t]
        /\ wk[s].pc = "setMode"
        /\ getPoller = s


(***************************************************************************)
(* The detector alone: the ledger grows, and detector runs (SpecDetector)  *)
(* or whole cycles (SpecRerun) execute with no other command in between.   *)
(***************************************************************************)
\* operations the ledger holds at most
MaxLedger == 3

TableMemo == <<"TABLE ", "5">>
OtherMemo == <<"tip">>

\* the operations that can enter the ledger: both tables, configured and
\* unknown recipients, memos with and without the pattern
LedgerRows ==
    {[sym |-> "HBD", to |-> "indies.cafe", memo |-> TableMemo],
     [sym |-> "HBD", to |-> "croque.bedaine", memo |-> TableMemo],
     [sym |-> "HBD", to |-> "indies.cafe", memo |-> OtherMemo],
     [sym |-> "HBD", to |-> "other.shop", memo |-> TableMemo],
     [sym |-> "EURO", to |-> "indies.cafe", memo |-> TableMemo],
     [sym |-> "EURO", to |-> "other.shop", memo |-> TableMemo],
     [sym |-> "OCLT", to |-> "croque.bedaine", memo |-> TableMemo],
     [sym |-> "OCLT", to |-> "croque.bedaine", memo |-> OtherMemo]}

\* A new operation enters the chain.
AppendRow(row) ==
    /\ Len(ledger) < MaxLedger
    /\ ledger' = Append(ledger, row)
    /\ UNCHANGED <<now, lock, hbKey, modeKey, state, broadcasts, wk, polling, rt,
                   groups, cons,
                   cursor, streams, cyc, run, failures, seen, repVars>>

\* the HBD run queries operation_transfer_table, a token run
\* operation_custom_json_view
InTable(symbol, row) == (symbol = "HBD") <=> (row.sym = "HBD")

\* the orders in which a set of rows can arrive
RECURSIVE Orders(_)
Orders(ids) ==
    IF ids = {}
    THEN {<<>>}
    ELSE UNION {{<<id>> \o rest : rest \in Orders(ids \ {id})} : id \in ids}

\* result.rows: some operations of the queried table, each once, in any order
Batches(symbol, led) ==
    UNION {Orders(ids) : ids \in SUBSET {id \in DOMAIN led : InTable(symbol, led[id])}}

\* One detector run for a currency over the rows the ledger returns.
DetectorRun(symbol, rows) ==
    /\ LET accountLastIds == ReadLastIds(symbol, cursor)
           res == ProcessRows(symbol, cursor, ledger, rows, accountLastIds)
       IN  /\ cursor' = res.cursor
           /\ run' = [kind |-> "run", symbol |-> symbol, rows |-> rows,
                      transfers |-> res.transfers, ledgerLen |-> Len(ledger),
                      rerun |-> FALSE]
    /\ UNCHANGED <<now, lock, hbKey, modeKey, state, broadcasts, wk, polling, rt,
                   groups, cons,
                   streams, ledger, cyc, failures, seen, repVars>>

\* The last detector activity was a whole cycle, and the ledger has had no
\* operation appended since.
CycleCompletedOn(led) == run.kind = "cycle" /\ run.ledgerLen = Len(led)

\* One whole cycle: pollAllTransfers() with its own queries.
Cycle ==
    /\ LET res == pollAllTransfers(cursor, ledger, streams)
       IN  /\ cursor' = res.cursor
           /\ streams' = res.streams
           /\ run' = [kind |-> "cycle", symbol |-> None, rows |-> <<>>,
                      transfers |-> res.transfers, ledgerLen |-> Len(ledger),
                      rerun |-> CycleCompletedOn(ledger)]
    /\ UNCHANGED <<now, lock, hbKey, modeKey, state, broadcasts, wk, polling, rt,
                   groups, cons,
                   ledger, cyc, failures, seen, repVars>>

InitDetector ==
    /\ now = TickSeconds
    /\ lock = NoLock
    /\ hbKey = 0
    /\ modeKey = None
    /\ state = EmptyState
    /\ broadcasts = {}
    /\ wk = [s \in Shops |-> WkIdle]
    /\ polling = [s \in Shops |-> FALSE]
    /\ rt = [r \in Callers |-> RtIdle]
    /\ cursor = NoCursor
    /\ streams = NoStreams
    /\ ledger = <<>>
    /\ cyc = [r \in CycleCallers |-> CycIdle]
    /\ run = NoRun
    /\ failures = 0
    /\ groups = NoGroups
    /\ cons = [c \in Consumers |-> ConsIdle]
    /\ seen = {}
    /\ InitReporting

\* the operations that enter the ledger while single detector runs are
\* observed: every HBD transfer, and the EURO transfers to configured accounts
BatchRows ==
    {row \in LedgerRows :
        \/ row.sym = "HBD"
        \/ row.sym = "EURO" /\ row.to \in Accounts}

NextDetector ==
    \/ \E row \in BatchRows : AppendRow(row)
    \/ \E symbol \in Currencies : \E rows \in Batches(symbol, ledger) : DetectorRun(symbol, rows)

SpecDetector == InitDetector /\ [][NextDetector]_vars

NextRerun ==
    \/ \E row \in LedgerRows : AppendRow(row)
    \/ Cycle

SpecRerun == InitDetector /\ [][NextRerun]_vars


(***************************************************************************)
(* Claims about the detector.                                              *)
(***************************************************************************)
Range(seq) == {seq[i] : i \in DOMAIN seq}
ContainsTable(memo) ==
    \E i, j \in DOMAIN memo : SubSeq(memo, i, j) = <<"TABLE ">>

\* C7: a cycle that follows a completed cycle, with no operation appended to
\* the ledger in between, returns no transfer, appends nothing to any stream
\* and leaves every cursor as it was.
C7_RerunIsIdempotent ==
    [][(CycleCompletedOn(ledger) /\ run'.kind = "cycle" /\ ledger' = ledger)
          => /\ run'.transfers = <<>>
             /\ streams' = streams
             /\ cursor' = cursor]_vars

\* a second cycle ran over a ledger whose transfers the first one published
C7_Witness ==
    /\ run.kind = "cycle"
    /\ run.rerun
    /\ \A r \in Restaurants : streams[r] # <<>>
    /\ \E a \in Accounts : cursor[a]["HBD"] = Len(ledger)

\* a detector run returns in this step
DetectorReturns == run' # run /\ run'.kind = "run"

C9_CursorIsMaxAccepted ==
    [][DetectorReturns =>
          \A a \in Accounts : \A c \in Currencies :
              LET accepted == {t.id : t \in {u \in Range(run'.transfers) : u.account = a}}
              IN  IF c = run'.symbol /\ accepted # {}
                  THEN /\ cursor'[a][c] \in accepted
                       /\ \A id \in accepted : id <= cursor'[a][c]
                  ELSE cursor'[a][c] = cursor[a][c]]_vars

\* a run that accepted two records of one account in ascending order, while
\* another account had a cursor for the same currency
C9_Witness ==
    /\ run.kind = "run"
    /\ Len(run.transfers) = 2
    /\ run.transfers[1].account = run.transfers[2].account
    /\ run.transfers[1].id < run.transfers[2].id
    /\ cursor[run.transfers[1].account][run.symbol] = run.transfers[2].id
    /\ \E a \in Accounts :
           /\ a # run.transfers[1].account
           /\ cursor[a][run.symbol] > 0

(***************************************************************************)
(* lib/haf-polling.ts: pollAllTransfers(), one action per store or         *)
(* database command, for invocations that overlap.                         *)
(*   cyc[c].pc: idle -> read -> query -> write -> (next currency) ...      *)
(*                                             -> publish -> idle          *)
(***************************************************************************)
\* operations the ledger holds at most while invocations run step by step
MaxPollLedger == 2
\* entries a stream holds at most when an invocation starts
MaxStream == 2
\* commands that fail at most
MaxFailures == 1

\* the operations that enter the ledger here
PollRows ==
    {[sym |-> "HBD", to |-> "indies.cafe", memo |-> TableMemo],
     [sym |-> "EURO", to |-> "croque.bedaine", memo |-> TableMemo]}

\* pollAllTransfers() returns: its locals are gone.
CycReturn(rec, status) ==
    [CycIdle EXCEPT !.all = rec.all, !.before = rec.before, !.status = status]

\* pollHBDBatched / pollHiveEngineTokenBatched returns `found`:
\* allTransfers.push(...found), then the next poll, or the publish loop, or,
\* with nothing to publish, the return.
FinishCurrency(rec, found) ==
    LET all == rec.all \o found
    IN  IF rec.ci < Len(CurrencyList)
        THEN [CycNew EXCEPT !.ci = rec.ci + 1, !.all = all, !.before = rec.before]
        ELSE IF all = <<>>
             THEN CycReturn([rec EXCEPT !.all = all], "ok")
             ELSE [CycNew EXCEPT !.pc = "publish", !.ci = rec.ci, !.all = all,
                                 !.before = rec.before]

\* A route calls pollAllTransfers().
CycleStart(c) ==
    /\ cyc[c].pc = "idle"
    /\ \A r \in Restaurants : Len(streams[r]) <= MaxStream
    /\ cyc' = [cyc EXCEPT ![c] = [CycNew EXCEPT !.before = cursor]]
    /\ UNCHANGED <<now, lock, hbKey, modeKey, state, broadcasts, wk, polling, rt,
                   groups, cons,
                   cursor, streams, ledger, run, failures, seen, repVars>>

\* const lastIdStr = await getLastId(account, symbol): GET lastId:..., a
\* missing key reading '0'
CycleRead(c) ==
    /\ cyc[c].pc = "read"
    /\ LET rec == cyc[c]
           account == AccountList[rec.k]
           symbol == CurrencyList[rec.ci]
           lastIds == [rec.lastIds EXCEPT ![account] = cursor[account][symbol]]
       IN  cyc' = [cyc EXCEPT ![c] =
                      IF rec.k < Len(AccountList)
                      THEN [rec EXCEPT !.k = rec.k + 1, !.lastIds = lastIds]
                      ELSE [rec EXCEPT !.pc = "query", !.lastIds = lastIds]]
    /\ UNCHANGED <<now, lock, hbKey, modeKey, state, broadcasts, wk, polling, rt,
                   groups, cons,
                   cursor, streams, ledger, run, failures, seen, repVars>>

\* await hafPool.query(...) / client.query(...), and the row loop over its
\* result
CycleQuery(c) ==
    /\ cyc[c].pc = "query"
    /\ LET rec == cyc[c]
           symbol == CurrencyList[rec.ci]
           minLastId == MinLastId(1, rec.lastIds, MAX_SAFE_INTEGER)
           rows == QueryRows(symbol, ledger, minLastId)
           scan == ScanRows(symbol, ledger, rows, rec.lastIds, EmptyScan)
       IN  cyc' = [cyc EXCEPT ![c] =
                      IF scan.order = <<>>
                      THEN FinishCurrency(rec, scan.transfers)
                      ELSE [rec EXCEPT !.pc = "write", !.found = scan.transfers,
                                       !.maxIds = scan.maxIds, !.order = scan.order]]
    /\ UNCHANGED <<now, lock, hbKey, modeKey, state, broadcasts, wk, polling, rt,
                   groups, cons,
                   cursor, streams, ledger, run, failures, seen, repVars>>

\* await setLastId(account, symbol, maxId.toString())
CycleWrite(c) ==
    /\ cyc[c].pc = "write"
    /\ LET rec == cyc[c]
           account == Head(rec.order)
           symbol == CurrencyList[rec.ci]
       IN  /\ cursor' = setLastId(cursor, account, symbol, rec.maxIds[account])
           /\ cyc' = [cyc EXCEPT ![c] =
                         IF Tail(rec.order) = <<>>
                         THEN FinishCurrency(rec, rec.found)
                         ELSE [rec EXCEPT !.order = Tail(rec.order)]]
    /\ seen' = IF seen = {} THEN seen ELSE seen \cup {cursor'}
    /\ UNCHANGED <<now, lock, hbKey, modeKey, state, broadcasts, wk, polling, rt,
                   groups, cons,
                   streams, ledger, run, failures, repVars>>

\* await publishTransfer(transfer.restaurant_id, transfer)
CyclePublish(c) ==
    /\ cyc[c].pc = "publish"
    /\ LET rec == cyc[c]
       IN  /\ streams' = publishTransfer(streams, rec.all[rec.pi])
           /\ cyc' = [cyc EXCEPT ![c] =
                         IF rec.pi < Len(rec.all)
                         THEN [rec EXCEPT !.pi = rec.pi + 1]
                         ELSE CycReturn(rec, "ok")]
    /\ UNCHANGED <<now, lock, hbKey, modeKey, state, broadcasts, wk, polling, rt,
                   groups, cons,
                   cursor, ledger, run, failures, seen, repVars>>

\* The pending command throws and the catch of pollAllTransfers logs it, or
\* the function instance is stopped: the invocation ends where it is.
CycleFail(c) ==
    /\ cyc[c].pc \in {"read", "query", "write", "publish"}
    /\ failures < MaxFailures
    /\ failures' = failures + 1
    /\ cyc' = [cyc EXCEPT ![c] = CycReturn(cyc[c], "failed")]
    /\ UNCHANGED <<now, lock, hbKey, modeKey, state, broadcasts, wk, polling, rt,
                   groups, cons,
                   cursor, streams, ledger, run, seen, repVars>>

\* A new operation enters the chain while invocations run.
AppendPollRow(row) ==
    /\ Len(ledger) < MaxPollLedger
    /\ AppendRow(row)

CycleStep(c) ==
    \/ CycleStart(c)
    \/ CycleRead(c)
    \/ CycleQuery(c)
    \/ CycleWrite(c)
    \/ CyclePublish(c)

\* /api/poll and /api/cron-poll invocations that overlap
NextPoll ==
    \/ \E row \in PollRows : AppendPollRow(row)
    \/ \E c \in CycleCallers : CycleStart(c)
    \/ \E c \in CycleCallers : CycleRead(c)
    \/ \E c \in CycleCallers : CycleQuery(c)
    \/ \E c \in CycleCallers : CycleWrite(c)
    \/ \E c \in CycleCallers : CyclePublish(c)
    \/ \E c \in CycleCallers : CycleFail(c)

SpecPoll == InitDetector /\ [][NextPoll]_vars

\* One caller whose invocations follow one another and keep being made.
NextCycle ==
    \/ \E row \in PollRows : AppendPollRow(row)
    \/ CycleStart("poll")
    \/ CycleRead("poll")
    \/ CycleQuery("poll")
    \/ CycleWrite("poll")
    \/ CyclePublish("poll")
    \/ CycleFail("poll")

SpecCycle == InitDetector /\ [][NextCycle]_vars /\ WF_vars(CycleStep("poll"))


(***************************************************************************)
(* Claims about the cursors and the delivery of a cycle.                   *)
(***************************************************************************)
\* C3: no step lowers the stored cursor of any account and currency, however
\* poll and cron-poll cycles interleave.
C3_CursorNeverDecreases ==
    [][\A a \in Accounts : \A c \in Currencies : cursor'[a][c] >= cursor[a][c]]_vars

\* the operation is addressed to a configured account with a matching memo
Matches(id) ==
    /\ id \in DOMAIN ledger
    /\ ledger[id].to \in Accounts
    /\ ContainsTable(ledger[id].memo)

\* the recipient's stream holds an entry for the operation
Published(id) ==
    /\ id \in DOMAIN ledger
    /\ ledger[id].to \in Accounts
    /\ \E t \in Range(streams[RestaurantOf(ledger[id].to)]) : t.id = id

\* C4: every operation addressed to a configured account with a matching memo
\* is eventually appended to the recipient's stream, when cycles keep being
\* run and some of them fail or are abandoned.
C4_MatchingRecordIsEventuallyPublished ==
    \A id \in 1..MaxPollLedger : Matches(id) ~> Published(id)

\* C5: when a cycle has failed or was abandoned, every cursor has the value
\* it had when the cycle started.
C5_FailedCycleLeavesCursors ==
    cyc["poll"].status = "failed" => cursor = cyc["poll"].before


(***************************************************************************)
(* app/api/transfers/consume and app/api/transfers/ack: the stream         *)
(* transfers:indies and its consumer groups.  An entry's id is its         *)
(* position in the stream.                                                 *)
(***************************************************************************)
\* entries the stream holds at most
MaxEntries == 2
\* the count parameter of a consume request (10 when omitted)
Counts == {1, 2}
\* const MIN_IDLE_TIME = 10000, in milliseconds
MIN_IDLE_TIME == 10000

StreamRestaurant == "indies"
StreamKey == streams[StreamRestaurant]

SetMin(S) == CHOOSE m \in S : \A x \in S : m <= x

\* the n smallest ids of a set, in ascending order
RECURSIVE AscLimit(_, _)
AscLimit(ids, n) ==
    IF ids = {} \/ n = 0
    THEN <<>>
    ELSE LET m == SetMin(ids) IN <<m>> \o AscLimit(ids \ {m}, n - 1)

SeqIds(seq) == {seq[i] : i \in DOMAIN seq}

\* An XGROUP CREATE with '$': the new group starts after the entries the
\* stream holds.
XGroupCreateAtEnd(g) ==
    IF g.exists
    THEN g
    ELSE [exists |-> TRUE, last |-> Len(streams["indies"]), pel |-> NoGroup.pel]

\* An XGROUP CREATE that replaces a group that exists by a new one.
XGroupCreateAnew(g) == [exists |-> TRUE, last |-> 0, pel |-> NoGroup.pel]

\* XGROUP CREATE key group 0 MKSTREAM; BUSYGROUP when the group exists, which
\* the route ignores
XGroupCreate(g) ==
    IF g.exists THEN g ELSE [exists |-> TRUE, last |-> 0, pel |-> NoGroup.pel]

\* An XREADGROUP that reads from the start of the stream instead of after the
\* group's last-delivered id.
XReadGroupFromStart(g, len, consumer, count, at) ==
    LET ids == AscLimit(1..len, count)
        new == SeqIds(ids)
    IN  [ids |-> ids,
         group |-> IF ids = <<>>
                   THEN g
                   ELSE [g EXCEPT
                            !.last = ids[Len(ids)],
                            !.pel = [e \in DOMAIN g.pel \cup new |->
                                        [consumer |-> consumer, at |-> at]]]]

\* XREADGROUP GROUP group consumer COUNT count STREAMS key '>': the entries
\* after the group's last-delivered id, which become pending for the consumer
XReadGroup(g, len, consumer, count, at) ==
    LET ids == AscLimit({e \in 1..len : e > g.last}, count)
        new == SeqIds(ids)
    IN  [ids |-> ids,
         group |-> IF ids = <<>>
                   THEN g
                   ELSE [g EXCEPT
                            !.last = ids[Len(ids)],
                            !.pel = [e \in DOMAIN g.pel \cup new |->
                                        IF e \in new
                                        THEN [consumer |-> consumer, at |-> at]
                                        ELSE g.pel[e]]]]

\* idle time of a pending entry against min-idle-time
IsIdle(entry, at) == (at - entry.at) * MS_PER_SECOND >= MIN_IDLE_TIME

\* An XAUTOCLAIM that takes only what the caller already owns.
XAutoClaimOwn(g, consumer, count, at) ==
    LET ids == AscLimit({e \in DOMAIN g.pel :
                            g.pel[e].consumer = consumer /\ IsIdle(g.pel[e], at)}, count)
    IN  [ids |-> ids,
         group |-> [g EXCEPT !.pel = [e \in DOMAIN g.pel |->
                                         IF e \in SeqIds(ids)
                                         THEN [consumer |-> consumer, at |-> at]
                                         ELSE g.pel[e]]]]

\* XAUTOCLAIM key group consumer 10000 0-0 COUNT count: the pending entries
\* of the group, whoever owns them, idle for min-idle-time, from the start of
\* the pending list; they pass to the consumer and their idle time restarts
XAutoClaim(g, consumer, count, at) ==
    LET ids == AscLimit({e \in DOMAIN g.pel : IsIdle(g.pel[e], at)}, count)
    IN  [ids |-> ids,
         group |-> [g EXCEPT !.pel = [e \in DOMAIN g.pel |->
                                         IF e \in SeqIds(ids)
                                         THEN [consumer |-> consumer, at |-> at]
                                         ELSE g.pel[e]]]]

\* XPENDING key group: pendingInfo[0]
XPending(g) == Cardinality(DOMAIN g.pel)

\* An XACK that gives up, acknowledging nothing, when one of its ids is not
\* pending.
XAckAllOrNothing(g, ids) ==
    IF ids \subseteq DOMAIN g.pel
    THEN [count |-> Cardinality(ids),
          group |-> [g EXCEPT !.pel = [e \in DOMAIN g.pel \ ids |-> g.pel[e]]]]
    ELSE [count |-> 0, group |-> g]

\* XACK key group id...: the ids that were pending leave the pending list
XAck(g, ids) ==
    [count |-> Cardinality(ids \cap DOMAIN g.pel),
     group |-> [g EXCEPT !.pel = [e \in DOMAIN g.pel \ ids |-> g.pel[e]]]]

\* the clock stops here while consumers are observed
MaxStreamTime == 20

StreamTick ==
    /\ now + TickSeconds <= MaxStreamTime
    /\ Tick

\* The poller appends a transfer to the stream.
PublishEntry ==
    /\ Len(StreamKey) < MaxEntries
    /\ streams' = publishTransfer(streams,
                     MakeTransfer(Len(StreamKey) + 1, "indies.cafe", "HBD"))
    /\ UNCHANGED <<now, lock, hbKey, modeKey, state, broadcasts, wk, polling, rt,
                   cursor, ledger, cyc, run, failures, groups, cons, seen, repVars>>

ConsRespond(c, via, transfers, pending) ==
    cons' = [cons EXCEPT ![c] = [@ EXCEPT !.pc = "idle", !.via = via,
                                          !.transfers = transfers,
                                          !.pending = pending]]

\* GET /api/transfers/consume?restaurantId=indies&consumerId=c&count=..&env=..
ConsumeStart(c, env, count) ==
    /\ cons[c].pc = "idle"
    /\ cons' = [cons EXCEPT ![c] = [ConsIdle EXCEPT !.pc = "group", !.env = env,
                                                    !.count = count]]
    /\ UNCHANGED <<now, lock, hbKey, modeKey, state, broadcasts, wk, polling, rt,
                   cursor, streams, ledger, cyc, run, failures, groups, seen, repVars>>

\* Ensure consumer group exists.
ConsumeGroup(c) ==
    /\ cons[c].pc = "group"
    /\ groups' = [groups EXCEPT ![cons[c].env] = XGroupCreate(@)]
    /\ cons' = [cons EXCEPT ![c].pc = "read"]
    /\ UNCHANGED <<now, lock, hbKey, modeKey, state, broadcasts, wk, polling, rt,
                   cursor, streams, ledger, cyc, run, failures, seen, repVars>>

\* A consume that goes on to reclaim whatever its read returned.
ConsumeReadThenClaim(c) ==
    /\ cons[c].pc = "read"
    /\ LET env == cons[c].env
           res == XReadGroup(groups[env], Len(StreamKey), c, cons[c].count, now)
       IN  /\ groups' = [groups EXCEPT ![env] = res.group]
           /\ cons' = [cons EXCEPT ![c].pc = "claim"]
    /\ UNCHANGED <<now, lock, hbKey, modeKey, state, broadcasts, wk, polling, rt,
                   cursor, streams, ledger, cyc, run, failures, seen, repVars>>

\* Read new messages using consumer group; with a result, the response.
ConsumeRead(c) ==
    /\ cons[c].pc = "read"
    /\ LET env == cons[c].env
           res == XReadGroup(groups[env], Len(StreamKey), c, cons[c].count, now)
       IN  /\ groups' = [groups EXCEPT ![env] = res.group]
           /\ IF res.ids = <<>>
              THEN cons' = [cons EXCEPT ![c].pc = "claim"]
              ELSE ConsRespond(c, "read", res.ids, 0)
    /\ UNCHANGED <<now, lock, hbKey, modeKey, state, broadcasts, wk, polling, rt,
                   cursor, streams, ledger, cyc, run, failures, seen, repVars>>

\* No new messages: auto-claim pending messages; with a result, the response.
ConsumeClaim(c) ==
    /\ cons[c].pc = "claim"
    /\ LET env == cons[c].env
           res == XAutoClaim(groups[env], c, cons[c].count, now)
       IN  /\ groups' = [groups EXCEPT ![env] = res.group]
           /\ IF res.ids = <<>>
              THEN cons' = [cons EXCEPT ![c].pc = "pending"]
              ELSE ConsRespond(c, "claim", res.ids, 0)
    /\ UNCHANGED <<now, lock, hbKey, modeKey, state, broadcasts, wk, polling, rt,
                   cursor, streams, ledger, cyc, run, failures, seen, repVars>>

\* Still no messages: { transfers: [], pending: pendingCount }
ConsumePending(c) ==
    /\ cons[c].pc = "pending"
    /\ ConsRespond(c, "pending", <<>>, XPending(groups[cons[c].env]))
    /\ UNCHANGED <<now, lock, hbKey, modeKey, state, broadcasts, wk, polling, rt,
                   cursor, streams, ledger, cyc, run, failures, groups, seen, repVars>>

\* An acknowledgement that reaches every group of the stream.
AckEveryGroup(c, env, messageIds) ==
    /\ cons[c].pc = "idle"
    /\ messageIds # {}
    /\ groups' = [e \in Envs |-> XAck(groups[e], messageIds).group]
    /\ cons' = [cons EXCEPT ![c] = [ConsIdle EXCEPT !.env = env,
                                                    !.via = "ack",
                                                    !.acked = messageIds,
                                                    !.acknowledged =
                                                        XAck(groups[env], messageIds).count]]
    /\ UNCHANGED <<now, lock, hbKey, modeKey, state, broadcasts, wk, polling, rt,
                   cursor, streams, ledger, cyc, run, failures, seen, repVars>>

\* POST /api/transfers/ack {restaurantId: 'indies', messageIds, env}
Ack(c, env, messageIds) ==
    /\ cons[c].pc = "idle"
    /\ messageIds # {}
    /\ LET res == XAck(groups[env], messageIds)
       IN  /\ groups' = [groups EXCEPT ![env] = res.group]
           /\ cons' = [cons EXCEPT ![c] = [ConsIdle EXCEPT !.env = env,
                                                           !.via = "ack",
                                                           !.acked = messageIds,
                                                           !.acknowledged = res.count]]
    /\ UNCHANGED <<now, lock, hbKey, modeKey, state, broadcasts, wk, polling, rt,
                   cursor, streams, ledger, cyc, run, failures, seen, repVars>>

\* the consumers observed here all use the prod group
StreamEnvs == {"prod"}

NextStream ==
    \/ StreamTick
    \/ PublishEntry
    \/ \E c \in Consumers : \E env \in StreamEnvs : \E count \in Counts : ConsumeStart(c, env, count)
    \/ \E c \in Consumers : ConsumeGroup(c)
    \/ \E c \in Consumers : ConsumeRead(c)
    \/ \E c \in Consumers : ConsumeClaim(c)
    \/ \E c \in Consumers : ConsumePending(c)
    \/ \E c \in Consumers : \E env \in StreamEnvs :
           \E messageIds \in SUBSET (1..MaxEntries) : Ack(c, env, messageIds)

SpecStream == InitDetector /\ [][NextStream]_vars


(***************************************************************************)
(* Claims about the consumer groups.                                       *)
(***************************************************************************)
\* the pending entries of a group that have been pending for 10 s or more
IdleFor10s(env) ==
    {e \in DOMAIN groups[env].pel : now - groups[env].pel[e].at >= 10}

\* consumer c's reclaim command answers in this step
ClaimAnswers(c) == cons[c].pc = "claim" /\ cons'[c].pc # "claim"

\* an acknowledgement naming entry e of the group is made in this step
AckNames(env, e) ==
    \E c \in Consumers :
        /\ cons[c].pc = "idle" /\ cons'[c].pc = "idle"
        /\ cons'[c].via = "ack"
        /\ cons'[c].env = env
        /\ e \in cons'[c].acked
        /\ \A d \in Consumers \ {c} : cons'[d] = cons[d]

HubShops == {"indies"}
\* operations the ledger holds at most while the routes run
MaxHubLedger == 1
\* the clock stops here while the routes run
MaxHubTime == 20

HubTick ==
    /\ now + TickSeconds <= MaxHubTime
    /\ Tick

AppendHubRow(row) ==
    /\ Len(ledger) < MaxHubLedger
    /\ AppendRow(row)

\* poll/route.ts: const transfers = await pollAllTransfers(), the call
PollCall(s) ==
    /\ rt[s].pc = "detect"
    /\ cyc["poll"].pc = "idle"
    /\ cyc' = [cyc EXCEPT !["poll"] = [CycNew EXCEPT !.before = cursor]]
    /\ rt' = [rt EXCEPT ![s].pc = "detecting"]
    /\ UNCHANGED <<now, lock, hbKey, modeKey, state, broadcasts, wk, polling,
                   cursor, streams, ledger, run, failures, groups, cons, seen, repVars>>

\* poll/route.ts: pollAllTransfers() has returned allTransfers
PollReturn(s) ==
    /\ rt[s].pc = "detecting"
    /\ cyc["poll"].pc = "idle"
    /\ rt' = [rt EXCEPT ![s].pc = "heartbeat", ![s].found = Len(cyc["poll"].all)]
    /\ UNCHANGED <<now, lock, hbKey, modeKey, state, broadcasts, wk, polling, detVars, repVars>>

\* cron-poll/route.ts: const transfers = await pollAllTransfers(), the call
CronCall ==
    /\ rt[Cron].pc = "detect"
    /\ cyc["cron-poll"].pc = "idle"
    /\ cyc' = [cyc EXCEPT !["cron-poll"] = [CycNew EXCEPT !.before = cursor]]
    /\ rt' = [rt EXCEPT ![Cron].pc = "detecting"]
    /\ UNCHANGED <<now, lock, hbKey, modeKey, state, broadcasts, wk, polling,
                   cursor, streams, ledger, run, failures, groups, cons, seen, repVars>>

\* cron-poll/route.ts: pollAllTransfers() has returned; the response 'polled'
CronReturn ==
    /\ rt[Cron].pc = "detecting"
    /\ cyc["cron-poll"].pc = "idle"
    /\ RtRespond(Cron, "polled", Len(cyc["cron-poll"].all))
    /\ UNCHANGED <<now, lock, hbKey, modeKey, state, broadcasts, wk, polling, detVars, repVars>>

\* No command fails.
NextHub ==
    \/ HubTick
    \/ \E row \in PollRows : AppendHubRow(row)
    \/ \E s \in HubShops : WakeUpStart(s)
    \/ \E s \in HubShops : WakeUpGetPoller(s)
    \/ \E s \in HubShops : WakeUpAttempt(s)
    \/ \E s \in HubShops : WakeUpSetMode(s)
    \/ \E s \in HubShops : WakeUpBroadcast(s)
    \/ \E s \in HubShops : WakeUpLostRace(s)
    \/ \E s \in HubShops : ClosePage(s)
    \/ \E s \in HubShops : PollStart(s)
    \/ \E s \in HubShops : PollCall(s)
    \/ \E s \in HubShops : PollReturn(s)
    \/ \E s \in HubShops : PollHeartbeat(s)
    \/ \E s \in HubShops : PollRefresh(s)
    \/ CronStart
    \/ CronUpdate
    \/ CronBroadcast
    \/ CronCall
    \/ CronReturn
    \/ \E c \in CycleCallers : CycleRead(c)
    \/ \E c \in CycleCallers : CycleQuery(c)
    \/ \E c \in CycleCallers : CycleWrite(c)
    \/ \E c \in CycleCallers : CyclePublish(c)

SpecHub == InitLease /\ [][NextHub]_vars

(***************************************************************************)
(* Claims about the routes together.                                       *)
(***************************************************************************)
\* the invocation is inside a detector run (pollHBDBatched or
\* pollHiveEngineTokenBatched)
InDetectorRun(c) == cyc[c].pc \in {"read", "query", "write"}

\* C11: no two detector runs for the same currency (hence for the same
\* account and currency) are in progress at the same time.
C11_NoConcurrentDetectorRuns ==
    \A c, d \in CycleCallers :
        (c # d /\ InDetectorRun(c) /\ InDetectorRun(d)) => cyc[c].ci # cyc[d].ci

\* the entries of the restaurants' streams that carry operation id
EntriesOf(id) ==
    {<<r, i>> \in Restaurants \X (1..(2 * MaxHubLedger + 2)) :
        i \in DOMAIN streams[r] /\ streams[r][i].id = id}

\* C12: with no failing command, every ledger operation has at most one entry
\* in the streams, however wake-up, poll and cron-poll invocations interleave.
C12_AppendedAtMostOnce ==
    \A id \in DOMAIN ledger : Cardinality(EntriesOf(id)) <= 1


(***************************************************************************)
(* The poll loop on schedule: the co page that was told to poll calls      *)
(* /api/poll every 6 seconds, every call succeeds, and the page stays      *)
(* open.  Time passes only between requests (a handler takes far less than *)
(* a tick), and never so far that the last heartbeat written by a poll is  *)
(* HEARTBEAT_TIMEOUT old.                                                  *)
(***************************************************************************)
DiligentTick ==
    /\ \A s \in Shops : wk[s].pc = "idle" /\ rt[s].pc = "idle"
    /\ \A s \in Shops :
           polling[s] => IsFresh(getHeartbeatFromState(state), now + TickSeconds)
    /\ Tick

NextDiligent ==
    \/ DiligentTick
    \/ \E s \in Shops : WakeUpStart(s)
    \/ \E s \in Shops : WakeUpGetPoller(s)
    \/ \E s \in Shops : WakeUpAttempt(s)
    \/ \E s \in Shops : WakeUpSetMode(s)
    \/ \E s \in Shops : WakeUpBroadcast(s)
    \/ \E s \in Shops : WakeUpLostRace(s)
    \/ \E s \in Shops : PollStart(s)
    \/ \E s \in Shops : PollDetect(s)
    \/ \E s \in Shops : PollHeartbeat(s)
    \/ \E s \in Shops : PollRefresh(s)

SpecDiligent == InitLease /\ [][NextDiligent]_vars

(***************************************************************************)
(* Claims about a poller that polls on schedule.                           *)
(***************************************************************************)
\* the wake-up of shop s answers in this step
WakeUpAnswers(s) == wk[s].pc # "idle" /\ wk'[s].pc = "idle"

\* C13: while another shop that became poller keeps completing its poll
\* cycles less than 15 s apart, a wake-up answers already-active or lost-race
\* (shouldStartPolling = false), never became-poller.
C13_OnlyOneShopBecomesPoller ==
    [][\A s \in Shops :
          (WakeUpAnswers(s) /\ \E t \in Shops \ {s} : polling[t])
          => wk'[s].status \in {"already-active", "lost-race"}]_vars

\* the poll invocation of shop s answers success in this step
PollCompletes(s) ==
    /\ rt[s].pc = "refresh"
    /\ rt'[s].pc = "idle"
    /\ rt'[s].status = "ok"

\* C14: a poll cycle completed by the lease holder, whose cycles are less
\* than 30 s apart, leaves the lease held by that shop and expiring 30 s
\* after the cycle.
C14_CompletedCycleExtendsLease ==
    [][\A s \in Shops :
          (PollCompletes(s) /\ getPoller = s)
          => lock' = [holder |-> s, expiry |-> now + POLLER_LOCK_TTL]]_vars


(***************************************************************************)
(* lib/redis.ts refreshPollerLock called on behalf of any shop, whatever   *)
(* the lease is at that moment; leases come from wake-up.                  *)
(***************************************************************************)
\* refreshPollerLock(shopId): EXPIRE polling:poller 30 (shopId is unused)
refreshPollerLock(shopId) ==
    IF LockExists
    THEN [lock EXCEPT !.expiry = now + POLLER_LOCK_TTL]
    ELSE lock

\* await refreshPollerLock(shopId); rt[s] records the call and its time
Renew(s) ==
    /\ rt[s].pc = "idle"
    /\ lock' = refreshPollerLock(s)
    /\ rt' = [rt EXCEPT ![s] = [RtIdle EXCEPT !.status = "renewed", !.at = now]]
    /\ UNCHANGED <<now, hbKey, modeKey, state, broadcasts, wk, polling, detVars, repVars>>

NextRenew ==
    \/ Tick
    \/ \E s \in Shops : WakeUpStart(s)
    \/ \E s \in Shops : WakeUpGetPoller(s)
    \/ \E s \in Shops : WakeUpAttempt(s)
    \/ \E s \in Shops : WakeUpSetMode(s)
    \/ \E s \in Shops : WakeUpBroadcast(s)
    \/ \E s \in Shops : WakeUpLostRace(s)
    \/ \E s \in Shops : Renew(s)

SpecRenew == InitLease /\ [][NextRenew]_vars

\* a renewal on behalf of shop s is made in this step
RenewedBy(s) ==
    /\ rt'[s].status = "renewed"
    /\ rt'[s].at = now
    /\ \A t \in Shops \ {s} : rt'[t] = rt[t]
    /\ wk' = wk /\ now' = now

\* C15: a renewal on behalf of a shop that does not hold the lease leaves the
\* lease's holder and expiry as they were.
C15_RenewalByNonHolderIsNoOp ==
    [][\A s \in Shops :
          (RenewedBy(s) /\ getPoller # s) => lock' = lock]_vars


(***************************************************************************)
(* Claims about acknowledgement and about a group with nothing pending.    *)
(***************************************************************************)
\* an acknowledgement is answered in this step: the steps of a consume
\* request all move its consumer to its next command, an acknowledgement
\* moves nobody
AckAnswers ==
    /\ \A c \in Consumers : cons'[c].pc = cons[c].pc
    /\ now' = now /\ streams' = streams
    /\ cons' # cons \/ groups' # groups

\* C16: an acknowledgement answers the number of its ids that were pending in
\* the group and removes exactly those from the group's pending entries; an
\* id that is not pending counts 0 and leaves the rest of the batch
\* acknowledged.
C16_AckCountsAndRemovesPending ==
    [][AckAnswers =>
          \E c \in Consumers :
              LET env == cons'[c].env
                  ids == cons'[c].acked
                  was == groups[env].pel
                  is == groups'[env].pel
              IN  /\ cons[c].pc = "idle" /\ cons'[c].via = "ack"
                  /\ \A d \in Consumers \ {c} : cons'[d] = cons[d]
                  /\ cons'[c].acknowledged = Cardinality(ids \cap DOMAIN was)
                  /\ DOMAIN is = DOMAIN was \ ids
                  /\ \A e \in DOMAIN is : is[e] = was[e]
                  /\ groups'[env].last = groups[env].last
                  /\ \A other \in Envs \ {env} : groups'[other] = groups[other]]_vars

\* an acknowledgement of two ids of which one was pending: it answered 1 and
\* nothing is pending any more
C16_Witness ==
    \E c \in Consumers :
        /\ cons[c].via = "ack"
        /\ cons[c].acked = {1, 2}
        /\ cons[c].acknowledged = 1
        /\ groups[cons[c].env].last = 2
        /\ DOMAIN groups[cons[c].env].pel = {}

\* every entry of the stream has been delivered to the group and acknowledged
AllAcknowledged(env) ==
    /\ groups[env].exists
    /\ groups[env].last = Len(StreamKey)
    /\ Len(StreamKey) > 0
    /\ DOMAIN groups[env].pel = {}

\* the consume request of consumer c is answered in this step
ConsumeAnswers(c) ==
    /\ cons[c].pc \in {"read", "claim", "pending"}
    /\ cons'[c].pc = "idle"

\* C17: a consume answers only entries that are new to the group or pending
\* in it, never an acknowledged one; and when every entry has been delivered
\* and acknowledged, it answers no transfers and a pending count of 0.
C17_AcknowledgedIsNeverRedelivered ==
    [][\A c \in Consumers :
          ConsumeAnswers(c) =>
              LET g == groups[cons[c].env]
              IN  /\ \A e \in SeqIds(cons'[c].transfers) :
                         e > g.last \/ e \in DOMAIN g.pel
                  /\ AllAcknowledged(cons[c].env) =>
                         /\ cons'[c].transfers = <<>>
                         /\ cons'[c].pending = 0
                         /\ cons'[c].via = "pending"]_vars

\* c2 acknowledged both entries of the stream (it answered 2), and the
\* consume c1 made afterwards answered nothing new and nothing pending
C17_Witness ==
    /\ cons["c2"].via = "ack"
    /\ cons["c2"].acked = {1, 2}
    /\ cons["c2"].acknowledged = 2
    /\ cons["c1"].via = "pending"
    /\ cons["c1"].env = cons["c2"].env
    /\ cons["c1"].transfers = <<>>
    /\ cons["c1"].pending = 0
    /\ AllAcknowledged(cons["c2"].env)


(***************************************************************************)
(* The routes together, with commands that fail.                           *)
(***************************************************************************)
NextHubFail ==
    \/ NextHub
    \/ \E c \in CycleCallers : CycleFail(c)
    \/ \E s \in HubShops : WakeUpError(s)
    \/ \E s \in HubShops : PollError(s)
    \/ CronError

SpecHubFail == InitLease /\ [][NextHubFail]_vars

\* the poll invocation of shop s, whose pollAllTransfers() hit a failing
\* command, issues its next command or answers in this step
FailedPollSteps(s) ==
    /\ rt[s].pc \in {"heartbeat", "refresh"}
    /\ rt'[s] # rt[s]
    /\ cyc["poll"].status = "failed"

\* C18: a poll invocation in which a ledger query or a store command failed
\* leaves the recorded heartbeat and the lease's expiry as they were.
C18_FailedPollLeavesHeartbeatAndLease ==
    [][\A s \in HubShops :
          FailedPollSteps(s) =>
              /\ getHeartbeatFromState(state') = getHeartbeatFromState(state)
              /\ lock' = lock]_vars

\* C19: a wake-up that has won the lease answers became-poller whether or not
\* its broadcast could be appended, and a cron-poll that has decided to poll
\* goes on to pollAllTransfers() whether or not its broadcast could be
\* appended.
C19_FailedBroadcastBreaksNothing ==
    [][/\ \A s \in HubShops :
             (wk[s].pc = "broadcast" /\ wk'[s].pc = "idle")
             => wk'[s].status = "became-poller"
       /\ (rt[Cron].pc = "broadcast" /\ rt'[Cron].pc # "broadcast")
             => rt'[Cron].pc = "detect"]_vars

\* CurrentMode(now, timeout) = Fast
Fast == LockExists /\ IsFresh(getHeartbeatFromState(state), now)

\* cron-poll takes its decision in this step
CronDecides == rt[Cron].pc = "idle" /\ rt'[Cron] # rt[Cron]

\* C20: cron-poll skips exactly when a lease is held and the last poll is
\* less than 15 s old, and performs its fallback poll otherwise.
C20_CronPollsExactlyWhenSlow ==
    [][CronDecides =>
          /\ (rt'[Cron].pc = "idle" /\ rt'[Cron].status = "skipped") <=> Fast
          /\ rt'[Cron].pc = "update" <=> ~Fast]_vars


(***************************************************************************)
(* app/api/status/route.ts and app/api/heartbeat/route.ts: what the two    *)
(* read-only routes answer from the store as it is.  status reads the hash *)
(* with one HGETALL; heartbeat reads the three keys one after the other,   *)
(* taken here at one instant.                                              *)
(***************************************************************************)
\* GET /api/status: the `polling` object of the response
StatusPolling ==
    LET heartbeat == getHeartbeatFromState(state)
    IN  [heartbeat |-> heartbeat,
         isActive |-> IsFresh(heartbeat, now),
         poller |-> getPollerFromState(state),
         mode |-> getModeFromState(state)]

\* GET /api/heartbeat: the response
HeartbeatResponse ==
    [heartbeat |-> hbKey,
     isActive |-> IsFresh(hbKey, now),
     poller |-> getPoller,
     mode |-> modeKey]

\* C21: in a status or heartbeat response the mode is active-6s exactly when
\* isActive is true.
C21_ModeIsDerivedFromHeartbeat ==
    \A r \in {StatusPolling, HeartbeatResponse} :
        (r.mode = "active-6s") <=> r.isActive

\* C22: the holder the status response reports is none when no unexpired
\* lease exists, and the shop whose acquisition last succeeded otherwise.
C22_ReportedHolderIsLeaseHolder ==
    StatusPolling.poller = (IF LockExists THEN lock.holder ELSE None)


\* C23: a cron-poll that runs while the last heartbeat is younger than the
\* heartbeat timeout answers 'skipped' in that one step, starts no detector
\* cycle, and leaves heartbeat, mode, cursors, streams, lease and broadcasts
\* as they were.
C23_SkippedCronChangesNothing ==
    [][(CronDecides /\ IsFresh(getHeartbeatFromState(state), now))
           => /\ rt'[Cron].pc = "idle"
              /\ rt'[Cron].status = "skipped"
              /\ rt'[Cron].found = 0
              /\ cyc' = cyc
              /\ UNCHANGED <<state, hbKey, modeKey, cursor, streams, lock, broadcasts>>]_vars

\* A cron-poll has skipped and the heartbeat it saw is still fresh.
C23_Witness ==
    /\ rt[Cron].pc = "idle"
    /\ rt[Cron].status = "skipped"
    /\ IsFresh(getHeartbeatFromState(state), now)


(***************************************************************************)
(* Two invocations that overlap while HBD transfers reach both accounts:   *)
(* one query then returns rows of both, and its setLastId loop writes one  *)
(* key after the other.  `seen` starts from the keys as they are.          *)
(***************************************************************************)
SnapshotRows ==
    {[sym |-> "HBD", to |-> a, memo |-> TableMemo] : a \in Accounts}

InitSnapshot ==
    /\ now = TickSeconds
    /\ lock = NoLock
    /\ hbKey = 0
    /\ modeKey = None
    /\ state = EmptyState
    /\ broadcasts = {}
    /\ wk = [s \in Shops |-> WkIdle]
    /\ polling = [s \in Shops |-> FALSE]
    /\ rt = [r \in Callers |-> RtIdle]
    /\ cursor = NoCursor
    /\ streams = NoStreams
    /\ ledger = <<>>
    /\ cyc = [r \in CycleCallers |-> CycIdle]
    /\ run = NoRun
    /\ failures = 0
    /\ groups = NoGroups
    /\ cons = [c \in Consumers |-> ConsIdle]
    /\ seen = {cursor}
    /\ InitReporting

NextSnapshot ==
    \/ \E row \in SnapshotRows : AppendPollRow(row)
    \/ \E c \in CycleCallers : CycleStart(c)
    \/ \E c \in CycleCallers : CycleRead(c)
    \/ \E c \in CycleCallers : CycleQuery(c)
    \/ \E c \in CycleCallers : CycleWrite(c)
    \/ \E c \in CycleCallers : CyclePublish(c)

SpecSnapshot == InitSnapshot /\ [][NextSnapshot]_vars

\* the keys of a currency held these values together at some instant
Coexisted(symbol, lastIds) ==
    \E cur \in seen : \A a \in Accounts : cur[a][symbol] = lastIds[a]

\* C24: when an invocation has read the cursors of a currency, the values it
\* holds, from which it computes the lower bound and filters the rows, are
\* values the keys held together at one instant.
C24_CursorReadsAreOneSnapshot ==
    \A c \in CycleCallers :
        cyc[c].pc = "query" => Coexisted(CurrencyList[cyc[c].ci], cyc[c].lastIds)


(***************************************************************************)
(* The lower bound of the ledger query, for any cursors the keys may hold. *)
(* lastId keys hold decimal strings read with BigInt(), so an id may lie   *)
(* beyond Number.MAX_SAFE_INTEGER.                                         *)
(***************************************************************************)
\* ids taken on each side of MAX_SAFE_INTEGER
MaxFloorIds == 2
FloorIds ==
    0..(MaxFloorIds - 1)
        \cup {MAX_SAFE_INTEGER + i : i \in 0..MaxFloorIds}

InitFloor ==
    /\ now = TickSeconds
    /\ lock = NoLock
    /\ hbKey = 0
    /\ modeKey = None
    /\ state = EmptyState
    /\ broadcasts = {}
    /\ wk = [s \in Shops |-> WkIdle]
    /\ polling = [s \in Shops |-> FALSE]
    /\ rt = [r \in Callers |-> RtIdle]
    /\ cursor \in [Accounts -> [Currencies -> FloorIds]]
    /\ streams = NoStreams
    /\ ledger = <<>>
    /\ cyc = [r \in CycleCallers |-> CycIdle]
    /\ run = NoRun
    /\ failures = 0
    /\ groups = NoGroups
    /\ cons = [c \in Consumers |-> ConsIdle]
    /\ seen = {}
    /\ InitReporting

\* The getLastId loop of a poll for one currency: accountLastIds and minLastId
\* as the query receives it.
Floor(symbol) ==
    /\ LET accountLastIds == ReadLastIds(symbol, cursor)
       IN  run' = [kind |-> "floor", symbol |-> symbol,
                   lastIds |-> accountLastIds,
                   minLastId |-> MinLastId(1, accountLastIds, MAX_SAFE_INTEGER)]
    /\ UNCHANGED <<now, lock, hbKey, modeKey, state, broadcasts, wk, polling, rt,
                   groups, cons,
                   cursor, streams, ledger, cyc, failures, seen, repVars>>

NextFloor == \E symbol \in Currencies : Floor(symbol)

SpecFloor == InitFloor /\ [][NextFloor]_vars

\* C25: the lower bound passed to the ledger query is the minimum of the
\* accounts' cursors for the currency, whatever the cursors are.
C25_FloorIsMinimumCursor ==
    run.kind = "floor"
        => run.minLastId = SetMin({run.lastIds[a] : a \in Accounts})


(***************************************************************************)
(* The consume route when XGROUP CREATE fails with an error that is not    *)
(* BUSYGROUP (the store cannot be reached, the key holds another type).    *)
(***************************************************************************)
\* if (!error.message?.includes('BUSYGROUP')) throw error; and the catch of
\* the route: { error: ... } with status 500
ConsumeGroupError(c) ==
    /\ cons[c].pc = "group"
    /\ ConsRespond(c, "error", <<>>, 0)
    /\ UNCHANGED <<now, lock, hbKey, modeKey, state, broadcasts, wk, polling, rt,
                   cursor, streams, ledger, cyc, run, failures, groups, seen, repVars>>

NextGroup ==
    \/ NextStream
    \/ \E c \in Consumers : ConsumeGroupError(c)

SpecGroup == InitDetector /\ [][NextGroup]_vars

\* consumer c's XGROUP CREATE answers in this step
GroupAnswers(c) == cons[c].pc = "group" /\ cons'[c].pc # "group"

\* C26: when the XGROUP CREATE of a Consume answers, either the request goes
\* on to read with the group present, a group that existed keeping its
\* last-delivered id and its pending entries, or the command failed with
\* another error and the request answers an error, delivers nothing and
\* leaves the groups as they were.
C26_EnsureGroupIsIdempotent ==
    [][\A c \in Consumers :
           GroupAnswers(c) =>
               LET env == cons[c].env
               IN  \/ /\ cons'[c].pc = "read"
                      /\ groups'[env].exists
                      /\ groups[env].exists => groups'[env] = groups[env]
                      /\ \A other \in Envs \ {env} : groups'[other] = groups[other]
                   \/ /\ cons'[c].pc = "idle"
                      /\ cons'[c].via = "error"
                      /\ cons'[c].transfers = <<>>
                      /\ groups' = groups]_vars

\* both consumers have passed XGROUP CREATE in requests made after entries
\* were delivered and left pending: each found the group in place
C26_Witness ==
    /\ \A c \in Consumers : cons[c].pc = "read" /\ cons[c].env = "prod"
    /\ groups["prod"].exists
    /\ groups["prod"].last > 0
    /\ DOMAIN groups["prod"].pel # {}


\* shop s's wake-up answers lost-race in this step
LostRaceAnswers(s) ==
    /\ wk[s].pc = "lostRace"
    /\ wk'[s].pc = "idle"
    /\ wk'[s].status = "lost-race"

\* C27: a wake-up that lost the acquisition answers lost-race naming a shop,
\* the one that holds the lease, never an empty holder; the shop does not
\* start polling and the answer makes no acquisition.
C27_LostRaceNamesTheHolder ==
    [][\A s \in Shops :
           LostRaceAnswers(s) =>
               /\ wk'[s].poller # None
               /\ wk'[s].poller = lock.holder
               /\ ~polling'[s]
               /\ lock' = lock]_vars


(***************************************************************************)
(* Malformed operations in the ledger: an HBD row whose memo column is     *)
(* NULL, and a custom_json whose json does not parse.                      *)
(***************************************************************************)
\* row.memo === null, kept apart from every string
NullMemo == <<None>>

\* the last row is a custom_json whose JSON.parse(row.json) throws: it has
\* no payload to read, and the catch of the row loop goes on to the next row
MalformedRows ==
    {[sym |-> "HBD", to |-> "indies.cafe", memo |-> TableMemo],
     [sym |-> "HBD", to |-> "croque.bedaine", memo |-> NullMemo],
     [sym |-> "EURO", to |-> "indies.cafe", memo |-> TableMemo],
     [sym |-> "unparseable", to |-> None, memo |-> <<>>]}

\* the rows a poll of the currency receives with the cursors as they are
BatchOf(symbol, cur, led) ==
    QueryRows(symbol, led,
              MinLastId(1, ReadLastIds(symbol, cur), MAX_SAFE_INTEGER))

\* r.memo.substring(0, 50) in the log of the raw rows, and row.memo.includes
\* in the row loop, throw a TypeError on a NULL memo
HBDThrows(cur, led) ==
    LET rows == BatchOf("HBD", cur, led)
    IN  \E i \in DOMAIN rows : led[rows[i]].memo = NullMemo

\* One whole pollAllTransfers(): when pollHBDBatched throws, the catch logs
\* the error and the function returns allTransfers, still empty.
CycleOrThrow ==
    IF HBDThrows(cursor, ledger)
    THEN /\ run' = [kind |-> "cycle", symbol |-> None, rows |-> <<>>,
                    transfers |-> <<>>, ledgerLen |-> Len(ledger),
                    rerun |-> CycleCompletedOn(ledger)]
         /\ UNCHANGED <<now, lock, hbKey, modeKey, state, broadcasts, wk, polling, rt,
                        groups, cons,
                        cursor, streams, ledger, cyc, failures, seen, repVars>>
    ELSE Cycle

NextMalformed ==
    \/ \E row \in MalformedRows : AppendRow(row)
    \/ CycleOrThrow

SpecMalformed == InitDetector /\ [][NextMalformed]_vars

\* the operation's payload cannot be read
Malformed(id) ==
    ledger[id].memo = NullMemo \/ ledger[id].sym = "unparseable"

\* C28: when the rows a cycle receives for a currency hold a malformed
\* operation, every well-formed operation among them that is addressed to a
\* configured account, lies above that account's cursor and has a matching
\* memo is returned by the cycle, appended to the recipient's stream and
\* covered by the cursor afterwards.
C28_MalformedRecordIsDropped ==
    [][(run' # run /\ run'.kind = "cycle") =>
           \A symbol \in Currencies :
               LET batch == Range(BatchOf(symbol, cursor, ledger))
               IN  (\E bad \in batch : Malformed(bad)) =>
                       \A id \in batch :
                           (/\ ~Malformed(id)
                            /\ RowAccepted(symbol, ledger[id], id,
                                           ReadLastIds(symbol, cursor)))
                               => /\ \E t \in Range(run'.transfers) : t.id = id
                                  /\ \E t \in Range(streams'[RestaurantOf(ledger[id].to)]) :
                                         t.id = id
                                  /\ cursor'[ledger[id].to][symbol] >= id]_vars

\* C29: when a cycle raises the cursor of an account and currency from c to
\* c', every operation of that currency addressed to the account with a
\* matching memo and an id in (c, c'] is among the transfers the cycle
\* returned, however many rows lie above the lower bound of its query.
C29_NothingLeftBelowNewCursor ==
    [][(run' # run /\ run'.kind = "cycle") =>
           \A a \in Accounts : \A c \in Currencies :
               \A id \in DOMAIN ledger :
                   (/\ ledger[id].sym = c
                    /\ ledger[id].to = a
                    /\ ContainsTable(ledger[id].memo)
                    /\ cursor[a][c] < id
                    /\ id <= cursor'[a][c])
                       => \E t \in Range(run'.transfers) : t.id = id]_vars

\* the pollAllTransfers() invocation of a route
InvocationOf(r) == IF r = Cron THEN "cron-poll" ELSE "poll"

\* the transfers an invocation returned that their recipient's stream holds
InStream(all) ==
    {i \in DOMAIN all : all[i] \in Range(streams[all[i].restaurant_id])}

\* C30: the transfersFound a poll or cron-poll reports when its
\* pollAllTransfers() returns is at most the number of the returned transfers
\* that were appended to their recipient's stream.
C30_FoundCountsPublishedTransfers ==
    [][\A r \in Callers :
           (rt[r].pc = "detecting" /\ rt'[r].pc # "detecting")
               => rt'[r].found <= Cardinality(InStream(cyc[InvocationOf(r)].all))]_vars

\* shop s's acquisition attempt meets an unexpired lease, its wake-up having
\* read a heartbeat that is missing or older than the timeout
StaleAttempt(s) ==
    /\ AttemptReturns(s)
    /\ LockExists
    /\ ~IsFresh(wk[s].heartbeat, now)

\* C31: a wake-up that saw a stale heartbeat and attempts the acquisition
\* while the previous holder's lease is unexpired does not acquire it: the
\* lease keeps its holder and expiry, and the answer is lost-race naming that
\* holder.
C31_NoTakeoverBeforeLeaseExpiry ==
    [][\A s \in Shops :
           /\ StaleAttempt(s) => (wk'[s].pc = "lostRace" /\ lock' = lock)
           /\ LostRaceAnswers(s) => (wk'[s].poller = lock.holder /\ lock' = lock)
           /\ LostRaceAnswers(s) => wk'[s].poller # None]_vars

(***************************************************************************)
(* One shop's co page and Vercel Cron over a span longer than the lease:   *)
(* the wake-up, the /api/poll calls of the page's loop and /api/cron-poll, *)
(* each pollAllTransfers() run as one step.                                *)
(***************************************************************************)
NextShop ==
    \/ Tick
    \/ \E row \in PollRows : AppendHubRow(row)
    \/ \E s \in HubShops : WakeUpStart(s)
    \/ \E s \in HubShops : WakeUpGetPoller(s)
    \/ \E s \in HubShops : WakeUpAttempt(s)
    \/ \E s \in HubShops : WakeUpSetMode(s)
    \/ \E s \in HubShops : WakeUpBroadcast(s)
    \/ \E s \in HubShops : ClosePage(s)
    \/ \E s \in HubShops : PollStart(s)
    \/ \E s \in HubShops : PollDetect(s)
    \/ \E s \in HubShops : PollHeartbeat(s)
    \/ \E s \in HubShops : PollRefresh(s)
    \/ CronStart
    \/ CronUpdate
    \/ CronBroadcast
    \/ CronDetect

SpecShop == InitLease /\ [][NextShop]_vars

\* shop s's wake-up wins the acquisition in this step
WakeUpWins(s) == wk[s].pc = "attempt" /\ wk'[s].pc = "setMode"

\* a step of the poll route called by shop s, of cron-poll
PollSteps(s) == rt'[s] # rt[s]
CronSteps == rt'[Cron] # rt[Cron]

\* C32: the lease changes holder, or comes into being, only in the step in
\* which a wake-up wins the acquisition; no step of poll or cron-poll
\* changes the lease's holder, a cron-poll step leaves its expiry too, and a
\* poll that runs while no lease exists runs the detector, records its
\* heartbeat and leaves the lease absent.
C32_OnlyWakeUpChangesHolder ==
    [][/\ (lock'.holder # lock.holder \/ (~LockExists /\ lock' # lock))
              => \E s \in Shops : WakeUpWins(s) /\ lock'.holder = s
       /\ CronSteps => lock' = lock
       /\ \A s \in Shops :
              PollSteps(s) =>
                  /\ lock'.holder = lock.holder
                  /\ ~LockExists => lock' = lock
                  /\ (rt[s].pc = "heartbeat" /\ rt'[s].pc # "idle")
                         => state'.heartbeat = now]_vars

\* a poll has answered, with its heartbeat recorded, after the lease of its
\* caller had expired: no lease exists
C32_Witness ==
    \E s \in HubShops :
        /\ rt[s].pc = "idle"
        /\ rt[s].status = "ok"
        /\ state.heartbeat = now
        /\ lock.holder = s
        /\ ~LockExists

\* C33: the lower bound of a poll's ledger query is at most the cursor of
\* every account, whatever the cursors are, so that no id above an account's
\* cursor is excluded by the bound.
C33_FloorBelowEveryCursor ==
    run.kind = "floor" =>
        \A a \in Accounts :
            /\ run.minLastId <= run.lastIds[a]
            /\ \A id \in FloorIds : id > run.lastIds[a] => id > run.minLastId

\* a bound computed from cursors that differ, the first account's the lower
C33_Witness ==
    /\ run.kind = "floor"
    /\ run.lastIds[AccountList[1]] < run.lastIds[AccountList[2]]
    /\ run.minLastId = run.lastIds[AccountList[1]]

\* consumer c's read of new entries answers in this step
ReadAnswers(c) == cons[c].pc = "read" /\ cons'[c].pc # "read"

\* the entries of the stream never delivered to the group
NeverDelivered(env) == {e \in 1..Len(StreamKey) : e > groups[env].last}

\* the pending entries of the group that this step gives a new delivery
Redelivered(env) ==
    {e \in DOMAIN groups[env].pel \cap DOMAIN groups'[env].pel :
        groups'[env].pel[e] # groups[env].pel[e]}

\* C34: a Consume whose read finds never-delivered entries answers with
\* never-delivered entries only and gives no pending entry a new delivery;
\* one whose read finds none goes on to reclaim, and what a reclaim answers
\* are entries that were pending; pending entries are redelivered only by a
\* reclaim.
C34_ReclaimOnlyWhenNothingNew ==
    [][/\ \A c \in Consumers :
              LET env == cons[c].env
              IN  /\ (ReadAnswers(c) /\ NeverDelivered(env) # {})
                         => /\ cons'[c].pc = "idle"
                            /\ cons'[c].via = "read"
                            /\ cons'[c].transfers # <<>>
                            /\ SeqIds(cons'[c].transfers) \subseteq NeverDelivered(env)
                            /\ Redelivered(env) = {}
                  /\ (ReadAnswers(c) /\ NeverDelivered(env) = {})
                         => /\ cons'[c].pc = "claim"
                            /\ groups' = groups
                  /\ ClaimAnswers(c)
                         => /\ SeqIds(cons'[c].transfers) \subseteq DOMAIN groups[env].pel
                            /\ SeqIds(cons'[c].transfers) \cap NeverDelivered(env) = {}
       /\ \A env \in Envs :
              Redelivered(env) # {} => \E c \in Consumers : ClaimAnswers(c)]_vars

\* c1 was delivered both entries of the stream by its read and stayed
\* silent; c2's read found nothing new and its reclaim answered with them
C34_Witness ==
    /\ Len(StreamKey) = MaxEntries
    /\ cons["c1"].via = "read"
    /\ Len(cons["c1"].transfers) = MaxEntries
    /\ cons["c2"].via = "claim"
    /\ cons["c2"].transfers = cons["c1"].transfers

(***************************************************************************)
(* The prod and the dev consumer group of one restaurant's stream, with    *)
(* the env parameter of the requests given or left out.  The clock stands  *)
(* still: no entry becomes idle.                                           *)
(***************************************************************************)
\* searchParams.get('env') || 'prod', and bodyEnv || 'prod'
EnvParams == Envs \cup {None}
EnvOrProd(param) == IF param = None THEN "prod" ELSE param

\* one consumer id, used with both groups
EnvConsumers == {"c1"}

NextEnvs ==
    \/ PublishEntry
    \/ \E c \in EnvConsumers : \E param \in EnvParams : \E count \in Counts :
           ConsumeStart(c, EnvOrProd(param), count)
    \/ \E c \in EnvConsumers : ConsumeGroup(c)
    \/ \E c \in EnvConsumers : ConsumeRead(c)
    \/ \E c \in EnvConsumers : ConsumeClaim(c)
    \/ \E c \in EnvConsumers : ConsumePending(c)
    \/ \E c \in EnvConsumers : \E param \in EnvParams :
           \E messageIds \in SUBSET (1..MaxEntries) : Ack(c, EnvOrProd(param), messageIds)

SpecEnvs == InitDetector /\ [][NextEnvs]_vars

\* the entries a read of the group delivers for a count
DueForRead(env, count) ==
    {e \in NeverDelivered(env) :
        Cardinality({d \in NeverDelivered(env) : d < e}) < count}

\* C35: the groups of the two environments are independent: an entry leaves
\* a group's pending entries only by an acknowledgement addressed to that
\* group, a request changes nothing in the other group, a read delivers the
\* entries its own group has not had whatever the other group was delivered,
\* and an acknowledgement without env is addressed to the prod group.
C35_EnvGroupsAreIndependent ==
    [][/\ \A env \in Envs : \A e \in DOMAIN groups[env].pel :
              e \notin DOMAIN groups'[env].pel => AckNames(env, e)
       /\ \A c \in Consumers :
              cons'[c] # cons[c] =>
                  \A other \in Envs \ {cons'[c].env} : groups'[other] = groups[other]
       /\ \A c \in Consumers :
              ReadAnswers(c) =>
                  SeqIds(cons'[c].transfers) = DueForRead(cons[c].env, cons[c].count)
       /\ \A c \in Consumers : \A messageIds \in SUBSET (1..MaxEntries) :
              Ack(c, EnvOrProd(None), messageIds) =>
                  /\ cons'[c].env = "prod"
                  /\ groups'["dev"] = groups["dev"]]_vars

\* entry 1 was delivered in both groups and acknowledged in the prod group:
\* it is still pending in the dev group
C35_Witness ==
    /\ 1 \in DOMAIN groups["dev"].pel
    /\ groups["prod"].last >= 1
    /\ 1 \notin DOMAIN groups["prod"].pel
    /\ \E c \in Consumers :
           /\ cons[c].via = "ack"
           /\ cons[c].env = "prod"
           /\ 1 \in cons[c].acked
           /\ cons[c].acknowledged >= 1

\* the entries a sequence of ids holds are consecutive, from first upwards
ConsecutiveFrom(ids, first) == \A i \in DOMAIN ids : ids[i] = first + i - 1

\* C36: a group that a Consume creates starts before the first entry of the
\* stream, whatever the stream holds by then, and every read delivers the
\* entries that follow the group's last-delivered one, oldest first and
\* without a gap, up to its count: the entries published before the group
\* existed are all delivered, in order.
C36_NewGroupStartsAtTheBeginning ==
    [][\A c \in Consumers :
           LET env == cons[c].env
           IN  /\ (GroupAnswers(c) /\ ~groups[env].exists /\ cons'[c].pc = "read")
                      => /\ groups'[env].exists
                         /\ groups'[env].last = 0
                         /\ DOMAIN groups'[env].pel = {}
               /\ ReadAnswers(c)
                      => /\ ConsecutiveFrom(cons'[c].transfers, groups[env].last + 1)
                         /\ Len(cons'[c].transfers) =
                                Cardinality(DueForRead(env, cons[c].count))
                         /\ groups'[env].last =
                                groups[env].last + Len(cons'[c].transfers)]_vars

\* the first request the group has seen delivered both entries of the
\* stream, the older first
C36_Witness ==
    /\ cons["c1"].via = "read"
    /\ cons["c1"].transfers = <<1, 2>>
    /\ cons["c2"] = ConsIdle
    /\ groups["prod"].last = 2

\* shop s's wake-up answers became-poller in this step
BecamePoller(s) == wk[s].pc = "broadcast" /\ wk'[s].status = "became-poller"

\* cron-poll answers 'polled' in this step; shop s's poll answers
CronPolled ==
    rt[Cron].pc # "idle" /\ rt'[Cron].pc = "idle" /\ rt'[Cron].status = "polled"
PollAnswered(s) ==
    rt[s].pc = "refresh" /\ rt'[s].pc = "idle" /\ rt'[s].status = "ok"

\* C37: what the status and heartbeat routes answer right after a step: after
\* a wake-up became poller, the shop as poller and mode active-6s; after a
\* fallback cron poll, mode sleeping-1min; after a completed poll, isActive.
C37_StatusFollowsTheRoutes ==
    [][/\ \A s \in Shops :
              BecamePoller(s) =>
                  \A r \in {StatusPolling', HeartbeatResponse'} :
                      r.poller = s /\ r.mode = "active-6s"
       /\ CronPolled =>
              \A r \in {StatusPolling', HeartbeatResponse'} : r.mode = "sleeping-1min"
       /\ \A s \in Shops :
              PollAnswered(s) =>
                  \A r \in {StatusPolling', HeartbeatResponse'} : r.isActive]_vars

\* GET /api/reporting alone: requests that overlap, strategies that fail
\* or work from one query to the next
NextReporting ==
    \E q \in (1..MaxRequests) :
        \/ \E reject \in {0, 400, 403, 500} : ReportingStart(q, reject)
        \/ \E ok \in BOOLEAN : ReportingQuery(q, ok)
SpecReporting == InitDetector /\ [][NextReporting]_vars

\* the steps of request q: the one that fixes the order of the strategies,
\* and the ones that query
ReportingStarts(q) ==
    reporting[q].pc # "trying" /\ reporting'[q].pc = "trying"
ReportingQueries(q) ==
    reporting[q].pc = "trying" /\ reporting'[q] # reporting[q]
\* the strategy request q queries next: the first of its order that has not
\* failed
NextStrategy(q) ==
    reporting[q].strategiesToTry[Len(reporting[q].errors) + 1]

\* C38: a request that starts with a pinned strategy tries it first and then
\* the other strategies in the order of the list, each one only after every
\* strategy before it has failed; a request that starts with nothing pinned
\* tries the list as it is.  A query that succeeds answers 200 and pins the
\* index of the strategy it ran.  A query that fails pins nothing, and the
\* request is answered 500 once every strategy has failed, and only then.
C38_CachePinsTheStrategyThatWorked ==
    [][\A q \in (1..MaxRequests) :
          /\ ReportingStarts(q) =>
                LET order == reporting'[q].strategiesToTry
                    pinned == JOIN_STRATEGIES[workingStrategyIndex + 1]
                IN  /\ reporting'[q].errors = <<>>
                    /\ IF workingStrategyIndex = NullIndex
                       THEN order = JOIN_STRATEGIES
                       ELSE /\ Head(order) = pinned
                            /\ Tail(order) =
                                  SelectSeq(JOIN_STRATEGIES,
                                            LAMBDA name : name # pinned)
          /\ ReportingQueries(q) =>
                LET before == reporting[q]
                    after == reporting'[q]
                IN  /\ before.errors =
                          SubSeq(before.strategiesToTry, 1, Len(before.errors))
                    /\ after.strategiesToTry = before.strategiesToTry
                    /\ \/ /\ after.status = 200
                          /\ after.usedStrategy = NextStrategy(q)
                          /\ after.errors = before.errors
                          /\ workingStrategyIndex' \in 0..(Len(JOIN_STRATEGIES) - 1)
                          /\ JOIN_STRATEGIES[workingStrategyIndex' + 1] =
                                after.usedStrategy
                       \/ /\ after.errors = Append(before.errors, NextStrategy(q))
                          /\ after.usedStrategy = None
                          /\ workingStrategyIndex' = workingStrategyIndex
                          /\ after.status =
                                IF SeqIds(after.errors) = SeqIds(JOIN_STRATEGIES)
                                THEN 500 ELSE 0]_vars

\* the second strategy was pinned; a request tried it, then the first, both
\* failed, and the third worked and is pinned now
C38_Witness ==
    \E q \in (1..MaxRequests) :
        /\ reporting[q].strategiesToTry =
              <<JOIN_STRATEGIES[2], JOIN_STRATEGIES[1], JOIN_STRATEGIES[3]>>
        /\ reporting[q].errors = <<JOIN_STRATEGIES[2], JOIN_STRATEGIES[1]>>
        /\ reporting[q].status = 200
        /\ reporting[q].usedStrategy = JOIN_STRATEGIES[3]
        /\ workingStrategyIndex = 2

====
